---- MODULE Spec2Model ----
(***************************************************************************)
(* Model of the moosestats dashboard: the cache merge engine and response  *)
(* builder of server.js (src/unnamed/part_000), the retry envelope and the *)
(* tab orchestrator of scripts/moose_scraper.js, and the request handlers  *)
(* that drive them.                                                        *)
(*                                                                         *)
(* JavaScript values are modelled as follows.  A string is a TLA+ string;  *)
(* null and undefined are the string NULL.  An object is a function whose  *)
(* domain is the set of its own property names, so an absent property and  *)
(* a property holding null are different, as they are for object spread.   *)
(* An array is a sequence.  Date.now() stamps (updatedAt) are left out.    *)
(***************************************************************************)
EXTENDS Integers, Sequences, FiniteSets, Bags, TLC

(***************************************************************************)
(* State.  Four parts of the program are exercised, each by its own        *)
(* specification; a specification leaves the other parts' variables idle.  *)
(***************************************************************************)

\* The cache functions: which one is called, its arguments, what it returned.
VARIABLES fn, argCache, argResult, argPlayers, ret, ret2, fnPhase, cacheObj

fnVars == <<fn, argCache, argResult, argPlayers, ret, ret2, fnPhase, cacheObj>>

\* withDetachRetry: options.attempts, the loop's attempt, where the call is,
\* what each invocation of the action did, the waits and logs so far, and the
\* value returned or error thrown.
VARIABLES rtAttempts, rtAttempt, rtState, rtOutcomes, rtCalls, rtWaits, rtLogs, rtReturn, rtError

\* getPlayerStats, one player on one tab: where the call is, the attempt of
\* the 'read stats' envelope, the attempt of the 'player row' envelope inside
\* it, what each invocation of the scroll action did, and the error thrown.
VARIABLES gpPhase, gpAttempt, gpScrollAttempt, gpScrolls, gpError

gpVars == <<gpPhase, gpAttempt, gpScrollAttempt, gpScrolls, gpError>>

rtVars == <<rtAttempts, rtAttempt, rtState, rtOutcomes, rtCalls, rtWaits, rtLogs, rtReturn, rtError,
            gpVars>>

\* scrapePlayers: its arguments (profiles, options.tabs, options.strategy),
\* the page (rows per tab, selected tab), the loop position, the locals
\* tabCache, tabs, stats, missing, missingIndexes, the calls of
\* getPlayerStats so far, the tabs whose columns ensureTabReady has mapped
\* so far, the result returned and that of the invocation before, and the
\* number of browser.close() calls of the invocation.
VARIABLES scProfiles, scTabsOption, scStrategy, pgRows, pgNoRows, pgAvatarStalls,
          pgActiveTab,
          scPhase, scOuter, scInner, scTabCache, scTabs, scStats,
          scMissing, scMissingIndexes, scLog, scResolved, scResult, scPrev, scCloses

scVars == <<scProfiles, scTabsOption, scStrategy, pgRows, pgNoRows, pgAvatarStalls,
            pgActiveTab,
            scPhase, scOuter, scInner, scTabCache, scTabs, scStats,
            scMissing, scMissingIndexes, scLog, scResolved, scResult, scPrev, scCloses>>

\* The server: players.json, the servers of data.json, the refreshInFlight
\* flag, the handlers waiting at an await (a bag: where each is and the
\* locals it holds), the number of requests received and the last response
\* sent.
VARIABLES playersFile, cacheFile, refreshInFlight, requests, received, lastResponse

svVars == <<playersFile, cacheFile, refreshInFlight, requests, received, lastResponse>>

\* Table functions of the scraper and file loaders of the server, called on
\* their own: the function called, its inputs, what it returned.
VARIABLES pfFn, pfArgs, pfRet, pfPhase

pfVars == <<pfFn, pfArgs, pfRet, pfPhase>>

vars == <<fnVars, rtVars, scVars, svVars, pfVars>>

NULL == "null"

\* {} : the object with no property.
EmptyObj == <<>>

\* o.k : reading a property an object lacks gives undefined.
Get(o, k) == IF k \in DOMAIN o THEN o[k] ELSE NULL

\* { ...a, ...b }
Spread(a, b) ==
  [k \in (DOMAIN a) \cup (DOMAIN b) |-> IF k \in DOMAIN b THEN b[k] ELSE a[k]]

\* a || b on strings (null and undefined are falsy).
Or(a, b) == IF a # NULL THEN a ELSE b

\* The object o without the property k (delete o[k]).
Without(o, k) == [x \in (DOMAIN o) \ {k} |-> o[x]]

SeqsUpTo(S, n) == UNION {[1..k -> S] : k \in 0..n}

Range(s) == {s[i] : i \in DOMAIN s}

RECURSIVE KeepFrom(_, _, _)
KeepFrom(s, K, from) ==
  IF from > Len(s) THEN <<>>
  ELSE IF from \in K THEN <<s[from]>> \o KeepFrom(s, K, from + 1)
       ELSE KeepFrom(s, K, from + 1)

\* array.filter: the elements of s at the indexes in K, in order.
KeepIdx(s, K) == KeepFrom(s, K, 1)

(***************************************************************************)
(* The identities the model draws from.  A Steam id is valid when it is    *)
(* 17 digits; the vanity name of an /id/ URL is an id-like string that is  *)
(* not.  URLs are opaque strings, so what the code parses out of one is    *)
(* given by a table of the URLs in use.                                    *)
(***************************************************************************)
IdA == "76561198000000001"
IdB == "76561198000000002"
IdV == "76561198000000009"
Vanity == "gabe"

UrlA == "https://steamcommunity.com/profiles/76561198000000001"
UrlB == "https://steamcommunity.com/profiles/76561198000000002"
UrlV == "https://steamcommunity.com/id/gabe"
UrlVP == "https://steamcommunity.com/profiles/76561198000000009"
UrlRoot == "https://steamcommunity.com/"
UrlBad == "steam profile"

\* Further players of a full roster, each with a /profiles/ URL.
MoreIds ==
  <<"76561198000000003", "76561198000000004", "76561198000000005", "76561198000000006",
    "76561198000000007", "76561198000000008", "76561198000000010">>
MoreUrls ==
  <<"https://steamcommunity.com/profiles/76561198000000003",
    "https://steamcommunity.com/profiles/76561198000000004",
    "https://steamcommunity.com/profiles/76561198000000005",
    "https://steamcommunity.com/profiles/76561198000000006",
    "https://steamcommunity.com/profiles/76561198000000007",
    "https://steamcommunity.com/profiles/76561198000000008",
    "https://steamcommunity.com/profiles/76561198000000010">>
PlaceOf(x, table) == CHOOSE k \in DOMAIN table : table[k] = x

\* new URL(u).pathname.split('/').filter(Boolean), or "invalid" when the
\* URL constructor throws.
UrlPathParts(u) ==
  CASE u = UrlA -> <<"profiles", IdA>>
    [] u = UrlB -> <<"profiles", IdB>>
    [] u = UrlV -> <<"id", Vanity>>
    [] u = UrlVP -> <<"profiles", IdV>>
    [] u = UrlRoot -> <<>>
    [] u \in Range(MoreUrls) -> <<"profiles", MoreIds[PlaceOf(u, MoreUrls)]>>
    [] OTHER -> <<"invalid">>

UrlParses(u) == u \in {UrlA, UrlB, UrlV, UrlVP, UrlRoot} \cup Range(MoreUrls)

steamIdFromUrl(steamUrl) ==
  IF ~UrlParses(steamUrl) THEN NULL
  ELSE LET parts == UrlPathParts(steamUrl)
       IN IF Len(parts) = 0 THEN NULL ELSE parts[Len(parts)]

\* /^\d{17}$/.test(String(steamId || ''))
isValidSteamId(steamId) == steamId \in {IdA, IdB, IdV} \cup Range(MoreIds)

\* /steamcommunity\.com\/id\/[^/]+/i.test(url)
IsVanityUrl(u) == u = UrlV

SERVER_NAME == "US Monthly (Premium)"
ALLOWED_SERVERS == <<"US Monthly (Premium)", "US Biweekly (Premium)">>
FALLBACK_AVATAR == "share_steam_logo.png"

(***************************************************************************)
(* Cache merge engine (server.js).                                         *)
(***************************************************************************)

\* A cache argument that is null.
NoCache == [isNull |-> TRUE]
IsNoCache(cache) == "isNull" \in DOMAIN cache

\* ProfileMatches without the truthiness guards: two absent keys compare equal.
ProfileMatchesUnguarded(profile, p) ==
  \/ Get(profile, "steamId") = Get(p, "steamId")
  \/ Get(profile, "steamUrl") = Get(p, "steamUrl")

\* The findIndex predicate of mergePlayerStats.
ProfileMatches(profile, p) ==
  \/ /\ Get(profile, "steamId") # NULL
     /\ Get(p, "steamId") # NULL
     /\ Get(profile, "steamId") = Get(p, "steamId")
  \/ /\ Get(profile, "steamUrl") # NULL
     /\ Get(p, "steamUrl") # NULL
     /\ Get(profile, "steamUrl") = Get(p, "steamUrl")

\* mergedProfiles.findIndex(...): the first index that matches, 0 for -1.
FindMatchIndex(mergedProfiles, profile) ==
  LET hits == {i \in DOMAIN mergedProfiles : ProfileMatches(profile, mergedProfiles[i])}
  IN IF hits = {} THEN 0 ELSE CHOOSE i \in hits : \A j \in hits : i <= j

\* MergeOneProfile with the spread reversed: the cached values win.
MergeOneProfileCacheWins(mergedProfiles, profile) ==
  LET matchIndex == FindMatchIndex(mergedProfiles, profile)
  IN IF matchIndex > 0
       THEN [mergedProfiles EXCEPT ![matchIndex] = Spread(profile, @)]
       ELSE Append(mergedProfiles, profile)

\* One turn of newProfiles.forEach.
MergeOneProfile(mergedProfiles, profile) ==
  LET matchIndex == FindMatchIndex(mergedProfiles, profile)
  IN IF matchIndex > 0
       THEN [mergedProfiles EXCEPT ![matchIndex] = Spread(@, profile)]
       ELSE Append(mergedProfiles, profile)

RECURSIVE MergeProfiles(_, _)
MergeProfiles(mergedProfiles, newProfiles) ==
  IF newProfiles = <<>> THEN mergedProfiles
  ELSE MergeProfiles(MergeOneProfile(mergedProfiles, Head(newProfiles)), Tail(newProfiles))

\* MergeStats that starts from an empty object instead of the cached stats.
MergeStatsFromEmpty(existingStats, incomingStats) == incomingStats

\* The stats of one tab after the inner forEach: incoming labels overwrite.
MergeStats(existingStats, incomingStats) == Spread(existingStats, incomingStats)

\* metrics: tabData?.metrics?.length ? tabData.metrics : existingTab.metrics || []
MergeMetrics(existingTab, tabData) ==
  IF Len(tabData.metrics) > 0 THEN tabData.metrics
  ELSE IF "metrics" \in DOMAIN existingTab THEN existingTab.metrics ELSE <<>>

\* next.tabs[tabKey] = { ...existingTab, ...tabData, stats: mergedStats, metrics }
MergeTab(existingTab, tabData) ==
  Spread(Spread(existingTab, tabData),
         [stats |-> MergeStats(IF "stats" \in DOMAIN existingTab
                                 THEN existingTab.stats ELSE EmptyObj,
                               tabData.stats),
          metrics |-> MergeMetrics(existingTab, tabData)])

\* Object.entries(playerResult.tabs).forEach(...) over next.tabs.
MergeTabs(tabs, incomingTabs) ==
  [tabKey \in (DOMAIN tabs) \cup (DOMAIN incomingTabs) |->
     IF tabKey \in DOMAIN incomingTabs
       THEN MergeTab(IF tabKey \in DOMAIN tabs THEN tabs[tabKey] ELSE EmptyObj,
                     incomingTabs[tabKey])
       ELSE tabs[tabKey]]

\* next.missing: a copy of the cache's list; playerResult.missing is not read.
MergeMissing(cache, playerResult) ==
  IF IsNoCache(cache) THEN <<>> ELSE cache.missing

\* The object passed as cache, after mergePlayerStats returned: next is a
\* shallow copy, so next.tabs is cache.tabs and next.tabs[tabKey] = ...
\* writes into it; every other field is assigned on next.
CacheAfterMerge(cache, playerResult) ==
  IF IsNoCache(cache) THEN cache
  ELSE [cache EXCEPT !.tabs = MergeTabs(cache.tabs, playerResult.tabs)]

mergePlayerStats(cache, playerResult) ==
  LET base == IF IsNoCache(cache) THEN [tabs |-> EmptyObj] ELSE cache
      cacheName == IF IsNoCache(cache) THEN NULL ELSE cache.serverName
      cacheInfo == IF IsNoCache(cache) THEN NULL ELSE cache.serverInfo
      existingProfiles == IF IsNoCache(cache) THEN <<>> ELSE cache.profiles
  IN Spread(base,
       [serverName |-> Or(playerResult.serverName, Or(cacheName, SERVER_NAME)),
        serverInfo |-> Or(playerResult.serverInfo, cacheInfo),
        missing |-> MergeMissing(cache, playerResult),
        profiles |-> MergeProfiles(existingProfiles, playerResult.profiles),
        tabs |-> MergeTabs(base.tabs, playerResult.tabs)])

\* removePlayerFromCache: the stats of one tab without the removed player's
\* keys (display name, steam id, steam url).
RemoveStatKeys(stats, player) ==
  LET id == Get(player, "steamId")
      url == Get(player, "steamUrl")
      displayName == Get(player, "displayName")
      gone == {k \in {displayName, id, url} : k # NULL}
  IN [k \in (DOMAIN stats) \ gone |-> stats[k]]

\* The identity test of the two filters of removePlayerFromCache.
SameIdentity(player, item) ==
  LET id == Get(player, "steamId")
      url == Get(player, "steamUrl")
  IN \/ id # NULL /\ Get(item, "steamId") # NULL /\ Get(item, "steamId") = id
     \/ url # NULL /\ Get(item, "steamUrl") # NULL /\ Get(item, "steamUrl") = url

removePlayerFromCache(cache, player) ==
  IF IsNoCache(cache) THEN NoCache
  ELSE Spread(cache,
         [profiles |-> KeepIdx(cache.profiles,
                         {i \in DOMAIN cache.profiles : ~SameIdentity(player, cache.profiles[i])}),
          tabs |-> [tabKey \in DOMAIN cache.tabs |->
                      Spread(cache.tabs[tabKey],
                             [stats |-> RemoveStatKeys(cache.tabs[tabKey].stats, player)])],
          missing |-> KeepIdx(cache.missing,
                        {i \in DOMAIN cache.missing : ~SameIdentity(player, cache.missing[i])})])

(***************************************************************************)
(* Response builder (server.js).                                           *)
(***************************************************************************)

\* bySteamId.get(v) / bySteamUrl.get(v): Map.set keeps the last player set
\* under a key; 0 when the map has no such key.
LastIndexWith(players, field, v) ==
  LET hits == {i \in DOMAIN players : Get(players[i], field) # NULL /\ Get(players[i], field) = v}
  IN IF hits = {} THEN 0 ELSE CHOOSE i \in hits : \A j \in hits : j <= i

\* The match of attachPlayerIds and mergeCachedProfiles: by steamId first,
\* else by steamUrl; the index of the matched player, 0 for null.
RosterMatch(profile, players) ==
  LET byId == IF Get(profile, "steamId") # NULL
                THEN LastIndexWith(players, "steamId", Get(profile, "steamId")) ELSE 0
      byUrl == IF Get(profile, "steamUrl") # NULL
                 THEN LastIndexWith(players, "steamUrl", Get(profile, "steamUrl")) ELSE 0
  IN IF byId > 0 THEN byId ELSE byUrl

attachPlayerIds(profiles, players) ==
  [i \in DOMAIN profiles |->
     LET profile == profiles[i]
         m == RosterMatch(profile, players)
     IN IF m = 0 THEN profile
        ELSE Spread(profile,
               [playerId |-> m - 1,
                storedSteamUrl |-> Get(players[m], "steamUrl"),
                storedSteamId |-> Get(players[m], "steamId")])]

\* The .map of mergeCachedProfiles.
OverlayPlayer(profile, players) ==
  LET m == RosterMatch(profile, players)
  IN IF m = 0 THEN profile
     ELSE Spread(profile,
            [steamUrl |-> Or(Get(players[m], "steamUrl"), Get(profile, "steamUrl")),
             steamId |-> Or(Get(players[m], "steamId"), Get(profile, "steamId")),
             displayName |-> Or(Get(players[m], "displayName"), Get(profile, "displayName")),
             avatarUrl |-> Or(Get(players[m], "avatarUrl"), Get(profile, "avatarUrl"))])

\* mergeCachedProfiles without its .filter: every profile is kept.
InRosterUnfiltered(profile, players) == TRUE

\* The .filter of mergeCachedProfiles.
InRoster(profile, players) ==
  \/ Get(profile, "steamId") # NULL
       /\ LastIndexWith(players, "steamId", Get(profile, "steamId")) > 0
  \/ Get(profile, "steamUrl") # NULL
       /\ LastIndexWith(players, "steamUrl", Get(profile, "steamUrl")) > 0

mergeCachedProfiles(profiles, players) ==
  LET mapped == [i \in DOMAIN profiles |-> OverlayPlayer(profiles[i], players)]
  IN KeepIdx(mapped, {i \in DOMAIN mapped : InRoster(mapped[i], players)})

\* p.displayName || p.fallbackName || p.steamId || p.steamUrl
StatKeyOf(p) ==
  Or(Get(p, "displayName"), Or(Get(p, "fallbackName"), Or(Get(p, "steamId"), Get(p, "steamUrl"))))

filterStatsToProfiles(tabs, profiles) ==
  LET keys == {StatKeyOf(profiles[i]) : i \in DOMAIN profiles} \ {NULL}
  IN [tabKey \in DOMAIN tabs |->
        Spread(tabs[tabKey],
               [stats |-> [k \in (DOMAIN tabs[tabKey].stats) \cap keys |-> tabs[tabKey].stats[k]]])]

\* player.steamId || steamIdFromUrl(player.steamUrl)
IdOrUrlId(p) == Or(Get(p, "steamId"), steamIdFromUrl(Get(p, "steamUrl")))

\* The placeholder given to a roster player the cache has no profile of.
Placeholder(player) ==
  [steamUrl |-> Get(player, "steamUrl"),
   steamId |-> Get(player, "steamId"),
   displayName |-> Or(Get(player, "displayName"), Or(Get(player, "steamId"), Get(player, "steamUrl"))),
   fallbackName |-> Or(Get(player, "displayName"), Or(Get(player, "steamId"), Get(player, "steamUrl"))),
   avatarUrl |-> Or(Get(player, "avatarUrl"), FALLBACK_AVATAR)]

\* The roster players buildResponseFromCache adds placeholders for: those
\* with an id (own, or parsed from the url) that no merged profile has.
MissingPlayerIdx(mergedProfiles, players) ==
  LET mergedIds == {IdOrUrlId(mergedProfiles[i]) : i \in DOMAIN mergedProfiles} \ {NULL}
  IN {i \in DOMAIN players :
        IdOrUrlId(players[i]) # NULL /\ IdOrUrlId(players[i]) \notin mergedIds}

NeedsSteam64(profile) ==
  LET candidateId == Or(Get(profile, "steamId"), Get(profile, "storedSteamId"))
  IN /\ ~isValidSteamId(candidateId)
     /\ \/ candidateId # NULL
        \/ IsVanityUrl(Or(Get(profile, "steamUrl"), Get(profile, "storedSteamUrl")))

\* [...mergedProfiles, ...missingProfiles]
CombinedProfiles(mergedProfiles, missingPlayers) ==
  mergedProfiles \o [i \in DOMAIN missingPlayers |-> Placeholder(missingPlayers[i])]

\* The object buildResponseFromCache returns.
ResponseOf(cache, withIds, tabs) ==
  [serverName |-> Or(cache.serverName, SERVER_NAME),
   metrics |-> IF "pvp" \in DOMAIN tabs THEN tabs["pvp"].metrics ELSE <<>>,
   stats |-> IF "pvp" \in DOMAIN tabs THEN tabs["pvp"].stats ELSE EmptyObj,
   profiles |-> [i \in DOMAIN withIds |->
                   Spread(withIds[i], [needsSteam64 |-> NeedsSteam64(withIds[i])])],
   tabs |-> tabs,
   missing |-> cache.missing,
   serverInfo |-> cache.serverInfo]

ResponseFrom(cache, combinedProfiles, players) ==
  ResponseOf(cache, attachPlayerIds(combinedProfiles, players),
             filterStatsToProfiles(cache.tabs, combinedProfiles))

ResponseWith(cache, mergedProfiles, players) ==
  ResponseFrom(cache,
    CombinedProfiles(mergedProfiles,
                     KeepIdx(players, MissingPlayerIdx(mergedProfiles, players))),
    players)

buildResponseFromCache(cache, players) ==
  IF IsNoCache(cache) THEN NoCache
  ELSE ResponseWith(cache, mergeCachedProfiles(cache.profiles, players), players)

(***************************************************************************)
(* The cache functions applied to bounded inputs.  One call is one action: *)
(* the arguments are drawn in the initial state and the returned value is  *)
(* kept beside them.                                                       *)
(***************************************************************************)
MaxCacheProfiles == 2
MaxResultProfiles == 2
MaxRoster == 2
MaxLabels == 2

\* Profiles a cache may hold: either identity key may be missing.
CacheProfilePool ==
  {[steamId |-> id, steamUrl |-> url, displayName |-> "cached", color |-> "#111111"] :
     id \in {NULL, IdA, IdB}, url \in {NULL, UrlA}}

\* Profiles of a scrape result; one may lack steamId or steamUrl altogether,
\* and one without a steamId bears the display name of the cached profiles.
ResultProfilePool ==
  {Spread(Spread([displayName |-> IF id = NULL THEN "cached" ELSE "scraped"],
                 IF id = NULL THEN EmptyObj ELSE [steamId |-> id]),
          IF url = NULL THEN EmptyObj ELSE [steamUrl |-> url]) :
     id \in {NULL, IdA, IdB}, url \in {NULL, UrlA}}

\* Roster entries as POST and PUT /api/players can leave them.
RosterPool ==
  {[steamId |-> id, steamUrl |-> url,
    displayName |-> IF id = IdA THEN "Al" ELSE NULL,
    avatarUrl |-> IF id = IdA THEN "al.png" ELSE NULL] :
     id \in {NULL, IdA, IdB}, url \in {UrlA, UrlBad}}

LabelPool == <<"x", "y", "z", "w">>
FnLabels == {LabelPool[i] : i \in 1..MaxLabels}
FnTabKeys == {"pvp", "pve"}

TabDataPool(value, metricsPool) ==
  {[metrics |-> m, stats |-> st, columnMap |-> [KDR |-> 1]] :
     m \in metricsPool,
     st \in UNION {[L -> {value}] : L \in SUBSET FnLabels}}

TabsPool(value, metricsPool) ==
  UNION {[K -> TabDataPool(value, metricsPool)] : K \in SUBSET FnTabKeys}

FixedMissing == <<[label |-> "gone", steamId |-> IdB, steamUrl |-> NULL, reason |-> "no row"]>>

MkCache(profiles, tabs) ==
  [serverName |-> SERVER_NAME, serverInfo |-> NULL, profiles |-> profiles,
   tabs |-> tabs, missing |-> FixedMissing]

MkResult(profiles, tabs) ==
  [serverName |-> SERVER_NAME, serverInfo |-> NULL, profiles |-> profiles,
   tabs |-> tabs, missing |-> <<>>]

\* The missing list of a scrape pass that found no row for one player.
ScrapedMissing == <<[label |-> "lost", steamId |-> IdA, steamUrl |-> UrlA, reason |-> "no row"]>>

FixedCacheTabs ==
  [pvp |-> [metrics |-> <<"KDR">>, stats |-> [cached |-> "old"], columnMap |-> [KDR |-> 1]]]

FixedResultTabs ==
  [pvp |-> [metrics |-> <<"KDR">>, stats |-> [scraped |-> "new"], columnMap |-> [KDR |-> 1]]]

FnInit ==
  /\ fnPhase = "input"
  /\ ret = NoCache
  /\ ret2 = NoCache
  /\ \/ /\ fn = "mergeProfiles"
        /\ \E cp \in SeqsUpTo(CacheProfilePool, MaxCacheProfiles),
              rp \in SeqsUpTo(ResultProfilePool, MaxResultProfiles) :
             /\ argCache = MkCache(cp, FixedCacheTabs)
             /\ argResult = MkResult(rp, FixedResultTabs)
        /\ argPlayers = <<>>
     \/ /\ fn = "mergeTabs"
        /\ \E ct \in TabsPool("old", {<<>>, <<"KDR">>}),
              rt \in TabsPool("new", {<<>>, <<"KDR", "PvP Kills">>}),
              rm \in {<<>>, ScrapedMissing} :
             /\ argCache = MkCache(<<>>, ct)
             /\ argResult = [MkResult(<<>>, rt) EXCEPT !.missing = rm]
        /\ argPlayers = <<>>
     \/ /\ fn = "response"
        /\ \E cp \in SeqsUpTo(CacheProfilePool, MaxCacheProfiles),
              pl \in SeqsUpTo(RosterPool, MaxRoster) :
             /\ argCache = MkCache(cp, FixedCacheTabs)
             /\ argPlayers = pl
        /\ argResult = MkResult(<<>>, EmptyObj)
  /\ cacheObj = argCache

\* serverCache = mergePlayerStats(cache, result)
CallMerge ==
  /\ fn \in {"mergeProfiles", "mergeTabs"}
  /\ fnPhase = "input"
  /\ ret' = mergePlayerStats(argCache, argResult)
  /\ cacheObj' = CacheAfterMerge(cacheObj, argResult)
  /\ fnPhase' = "merged"
  /\ UNCHANGED <<fn, argCache, argResult, argPlayers, ret2>>
  /\ UNCHANGED <<rtVars, scVars, svVars, pfVars>>

\* The same result merged into the merged cache once more.
CallMergeAgain ==
  /\ fnPhase = "merged"
  /\ ret2' = mergePlayerStats(ret, argResult)
  /\ cacheObj' = CacheAfterMerge(cacheObj, argResult)
  /\ fnPhase' = "remerged"
  /\ UNCHANGED <<fn, argCache, argResult, argPlayers, ret>>
  /\ UNCHANGED <<rtVars, scVars, svVars, pfVars>>

\* response = buildResponseFromCache(cache, players)
CallBuildResponse ==
  /\ fn = "response"
  /\ fnPhase = "input"
  /\ ret' = buildResponseFromCache(argCache, argPlayers)
  /\ fnPhase' = "built"
  /\ UNCHANGED <<fn, argCache, argResult, argPlayers, ret2, cacheObj>>
  /\ UNCHANGED <<rtVars, scVars, svVars, pfVars>>

FnNext == CallMerge \/ CallMergeAgain \/ CallBuildResponse

\* The state in which the cache functions are not exercised.
FnIdle ==
  /\ fn = "none" /\ fnPhase = "idle"
  /\ argCache = NoCache /\ argResult = NoCache /\ argPlayers = <<>>
  /\ ret = NoCache /\ ret2 = NoCache /\ cacheObj = NoCache

(***************************************************************************)
(* Retry envelope (moose_scraper.js, withDetachRetry).  The action is the  *)
(* environment: each invocation returns or throws one of a few errors.     *)
(***************************************************************************)
MaxAttemptsOption == 4
DEFAULT_ATTEMPTS == 3
RETRY_BACKOFFS_MS == <<250, 500, 750>>

ErrDetached == "Element is not attached to the DOM"
ErrTargetClosed == "Target closed"
ErrTimeout == "Timeout 10000ms exceeded"
ErrNoRow == "Could not find player row by SteamID/searchKey"

\* message.includes('not attached to the DOM') || message.includes('Target closed')
isRetryableDetachError(err) == err \in {ErrDetached, ErrTargetClosed}

\* What one invocation of the action can do: return, or throw one of these.
ActionOutcomes == {"ok", ErrDetached, ErrTargetClosed, ErrTimeout}

\* Rethrows without the attempt === attempts test: the last transient error
\* is swallowed and the loop runs out.
RethrowsOnlyFatal(err, attempt, attempts) ==
  ~isRetryableDetachError(err)

\* Rethrows without the classification: every error is retried until the
\* attempts run out.
RethrowsOnLastAttempt(err, attempt, attempts) ==
  attempt = attempts

\* if (!isRetryableDetachError(err) || attempt === attempts) throw err
Rethrows(err, attempt, attempts) ==
  ~isRetryableDetachError(err) \/ attempt = attempts

\* backoffs[attempt - 1] || backoffs[backoffs.length - 1] || 250
BackoffMs(backoffs, attempt) ==
  IF attempt <= Len(backoffs) THEN backoffs[attempt]
  ELSE IF Len(backoffs) > 0 THEN backoffs[Len(backoffs)]
  ELSE 250

\* withDetachRetry(action, options) is entered; options.attempts is absent
\* (the default applies) or a number.
StatsIdle ==
  /\ gpPhase = "idle" /\ gpAttempt = 0 /\ gpScrollAttempt = 0
  /\ gpScrolls = <<>> /\ gpError = NULL

RetryInit ==
  /\ StatsIdle
  /\ rtAttempts \in 1..MaxAttemptsOption
  /\ rtAttempt = 1
  /\ rtState = "calling"
  /\ rtOutcomes = <<>>
  /\ rtCalls = 0
  /\ rtWaits = <<>>
  /\ rtLogs = 0
  /\ rtReturn = NULL
  /\ rtError = NULL

\* One turn of the for loop up to its await: the action is invoked; its
\* value is returned, or its error is rethrown, or a retry is logged and the
\* backoff wait begins.
RetryAttempt ==
  /\ rtState = "calling"
  /\ rtAttempt <= rtAttempts
  /\ \E outcome \in ActionOutcomes :
       /\ rtCalls' = rtCalls + 1
       /\ rtOutcomes' = Append(rtOutcomes, outcome)
       /\ IF outcome = "ok"
            THEN /\ rtState' = "returned"
                 /\ rtReturn' = "value"
                 /\ UNCHANGED <<rtError, rtWaits, rtLogs>>
            ELSE IF Rethrows(outcome, rtAttempt, rtAttempts)
                   THEN /\ rtState' = "thrown"
                        /\ rtError' = outcome
                        /\ UNCHANGED <<rtReturn, rtWaits, rtLogs>>
                   ELSE /\ rtState' = "backoff"
                        /\ rtWaits' = Append(rtWaits, BackoffMs(RETRY_BACKOFFS_MS, rtAttempt))
                        /\ rtLogs' = rtLogs + 1
                        /\ UNCHANGED <<rtReturn, rtError>>
  /\ UNCHANGED <<rtAttempts, rtAttempt, gpVars>>
  /\ UNCHANGED <<fnVars, scVars, svVars, pfVars>>

\* await delayMs(waitMs) is over: attempt += 1.
RetryBackoffOver ==
  /\ rtState = "backoff"
  /\ rtAttempt' = rtAttempt + 1
  /\ rtState' = IF rtAttempt + 1 <= rtAttempts THEN "calling" ELSE "returned"
  /\ UNCHANGED <<rtAttempts, rtOutcomes, rtCalls, rtWaits, rtLogs, rtReturn, rtError, gpVars>>
  /\ UNCHANGED <<fnVars, scVars, svVars, pfVars>>

RetryNext == RetryAttempt \/ RetryBackoffOver

EnvelopeIdle ==
  /\ rtAttempts = 0 /\ rtAttempt = 0 /\ rtState = "idle" /\ rtOutcomes = <<>>
  /\ rtCalls = 0 /\ rtWaits = <<>> /\ rtLogs = 0 /\ rtReturn = NULL /\ rtError = NULL

RetryIdle == EnvelopeIdle /\ StatsIdle

(***************************************************************************)
(* getPlayerStats (moose_scraper.js): the row search, then the 'read       *)
(* stats' envelope around the visibility checks, safeScrollIntoView (an    *)
(* envelope of its own, 'player row') and extractStatsFromRow.  Neither    *)
(* envelope is given options.attempts, so both run DEFAULT_ATTEMPTS.  The  *)
(* page is the environment: every awaited step returns or throws.          *)
(***************************************************************************)
gpEnvelope == <<rtAttempts, rtAttempt, rtState, rtOutcomes, rtCalls, rtWaits, rtLogs, rtReturn, rtError>>

\* What searchPlayerRow can do: return the row key, or throw.
SearchOutcomes == {"ok", ErrNoRow, ErrTimeout}

StatsInit ==
  /\ gpPhase = "search" /\ gpAttempt = 0 /\ gpScrollAttempt = 0
  /\ gpScrolls = <<>> /\ gpError = NULL

\* const rowKey = await searchPlayerRow(page, profile): outside any envelope,
\* its error leaves getPlayerStats at once.
StatsSearch ==
  /\ gpPhase = "search"
  /\ \E outcome \in SearchOutcomes :
       IF outcome = "ok"
         THEN gpPhase' = "read" /\ gpAttempt' = 1 /\ gpError' = gpError
         ELSE gpPhase' = "thrown" /\ gpError' = outcome /\ gpAttempt' = gpAttempt
  /\ UNCHANGED <<gpScrollAttempt, gpScrolls, gpEnvelope>>
  /\ UNCHANGED <<fnVars, scVars, svVars, pfVars>>

\* The catch of the 'read stats' envelope, for an error thrown by its action
\* during attempt gpAttempt.
ReadCatch(err) ==
  IF Rethrows(err, gpAttempt, DEFAULT_ATTEMPTS)
    THEN gpPhase' = "thrown" /\ gpError' = err
    ELSE gpPhase' = "readBackoff" /\ gpError' = gpError

\* One invocation of the 'read stats' action up to safeScrollIntoView: the
\* expects on the list container and the row.
StatsReadBegin ==
  /\ gpPhase = "read"
  /\ \E outcome \in ActionOutcomes :
       IF outcome = "ok"
         THEN gpPhase' = "scroll" /\ gpScrollAttempt' = 1 /\ gpError' = gpError
         ELSE ReadCatch(outcome) /\ gpScrollAttempt' = gpScrollAttempt
  /\ UNCHANGED <<gpAttempt, gpScrolls, gpEnvelope>>
  /\ UNCHANGED <<fnVars, scVars, svVars, pfVars>>

\* One invocation of safeScrollIntoView's action (expects, boundingBox,
\* scrollIntoViewIfNeeded) by the 'player row' envelope: it returns, or the
\* envelope waits and retries, or it rethrows into the 'read stats' action,
\* whose envelope catches the same error.
StatsScroll ==
  /\ gpPhase = "scroll"
  /\ \E outcome \in ActionOutcomes :
       /\ gpScrolls' = Append(gpScrolls, outcome)
       /\ IF outcome = "ok"
            THEN gpPhase' = "extract" /\ gpError' = gpError
            ELSE IF Rethrows(outcome, gpScrollAttempt, DEFAULT_ATTEMPTS)
                   THEN ReadCatch(outcome)
                   ELSE gpPhase' = "scrollBackoff" /\ gpError' = gpError
  /\ UNCHANGED <<gpAttempt, gpScrollAttempt, gpEnvelope>>
  /\ UNCHANGED <<fnVars, scVars, svVars, pfVars>>

\* await delayMs(waitMs) of the 'player row' envelope is over.
StatsScrollBackoffOver ==
  /\ gpPhase = "scrollBackoff"
  /\ gpPhase' = "scroll"
  /\ gpScrollAttempt' = gpScrollAttempt + 1
  /\ UNCHANGED <<gpAttempt, gpScrolls, gpError, gpEnvelope>>
  /\ UNCHANGED <<fnVars, scVars, svVars, pfVars>>

\* The rest of the 'read stats' action: extractStatsFromRow returns the
\* stats or throws (a cell read outside getTooltipNumber's try).
StatsExtract ==
  /\ gpPhase = "extract"
  /\ \E outcome \in ActionOutcomes :
       IF outcome = "ok"
         THEN gpPhase' = "returned" /\ gpError' = gpError
         ELSE ReadCatch(outcome)
  /\ UNCHANGED <<gpAttempt, gpScrollAttempt, gpScrolls, gpEnvelope>>
  /\ UNCHANGED <<fnVars, scVars, svVars, pfVars>>

\* await delayMs(waitMs) of the 'read stats' envelope is over.
StatsReadBackoffOver ==
  /\ gpPhase = "readBackoff"
  /\ gpPhase' = "read"
  /\ gpAttempt' = gpAttempt + 1
  /\ UNCHANGED <<gpScrollAttempt, gpScrolls, gpError, gpEnvelope>>
  /\ UNCHANGED <<fnVars, scVars, svVars, pfVars>>

StatsNext ==
  \/ StatsSearch \/ StatsReadBegin \/ StatsScroll \/ StatsScrollBackoffOver
  \/ StatsExtract \/ StatsReadBackoffOver


(***************************************************************************)
(* Tab orchestrator (moose_scraper.js, scrapePlayers from the tab loop on).*)
(* The page is the environment: which table it shows (the selected tab)    *)
(* and, per tab, which players have a row.  What a read returns is         *)
(* recorded as the table it was read from, the column map it was read      *)
(* with and the row's player, so reads from different tables differ.       *)
(* One invocation runs to its result; a second invocation against the      *)
(* same page may follow.                                                   *)
(***************************************************************************)
MaxPlayers == 2

\* Object.keys(TAB_DEFS), in definition order.
TAB_KEYS == <<"pvp", "pve", "resources", "farming", "building">>

TabLabel(tabKey) ==
  CASE tabKey = "pvp" -> "PvP"
    [] tabKey = "pve" -> "PvE"
    [] tabKey = "resources" -> "Resources"
    [] tabKey = "farming" -> "Farming"
    [] tabKey = "building" -> "Building"

\* Object.entries(TAB_DEFS).filter(([key]) => !tabsToScrape || tabsToScrape.includes(key))
TabEntries(tabsOption) ==
  IF Len(tabsOption) = 0 THEN TAB_KEYS
  ELSE KeepIdx(TAB_KEYS, {i \in DOMAIN TAB_KEYS : TAB_KEYS[i] \in Range(tabsOption)})

\* scrapePvp = tabEntries.some(([key]) => key === 'pvp')
ScrapePvp(tabsOption) == "pvp" \in Range(TabEntries(tabsOption))

\* label = profile.displayName || profile.fallbackName
LabelOf(profile) == Or(profile.displayName, profile.fallbackName)

\* The skip test without the missingIndexes lookup: nobody is skipped.
SkipsNobody(scrapePvp, missingIdx, profileIndex, tabKey) == FALSE

\* if (scrapePvp && missingIndexes.has(profileIndex) && tabKey !== 'pvp') continue
SkipsPlayer(scrapePvp, missingIdx, profileIndex, tabKey) ==
  scrapePvp /\ profileIndex \in missingIdx /\ tabKey # "pvp"

\* mapTableColumns over the table the page shows, for the patterns of tabKey.
ColumnMapOf(tabKey, activeTab) == [patterns |-> tabKey, headers |-> activeTab]

\* What getPlayerStats returns for the row of profile i.
StatsRead(activeTab, columnMap, i) == [table |-> activeTab, columns |-> columnMap, row |-> i]

\* An assignment that keeps the entry a label already has.
SetStatsIfAbsent(stats, label, value) ==
  IF label \in DOMAIN stats THEN stats ELSE Spread(stats, [k \in {label} |-> value])

\* stats[label] = await getPlayerStats(...): the entry of the label is
\* replaced.
SetStats(stats, label, value) == Spread(stats, [k \in {label} |-> value])

\* searchPlayerRow finds the row of profile i in the table the page shows.
RowFound(rows, activeTab, i) == i \in rows[activeTab]

\* ensureTabReady without the tabCache test: the tab is selected and its
\* columns are mapped at every call.
EnsureTabReadyUncached(tabCache, tabs, activeTab, tabKey) ==
  <<Spread(tabCache, [k \in {tabKey} |->
             [columnMap |-> ColumnMapOf(tabKey, tabKey), metrics |-> <<tabKey>>]]),
    Spread(tabs, [k \in {tabKey} |->
             [metrics |-> <<tabKey>>, stats |-> EmptyObj,
              columnMap |-> ColumnMapOf(tabKey, tabKey)]]),
    tabKey, TRUE>>

\* ensureTabReady(tabKey): <<tabCache, tabs, active tab, whether the columns
\* were mapped by this call>> after the call.  A tab already in tabCache is
\* returned as cached and not selected again.
EnsureTabReady(tabCache, tabs, activeTab, tabKey) ==
  IF tabKey \in DOMAIN tabCache THEN <<tabCache, tabs, activeTab, FALSE>>
  ELSE LET columnMap == ColumnMapOf(tabKey, tabKey)
           metrics == <<tabKey>>
       IN <<Spread(tabCache, [k \in {tabKey} |-> [columnMap |-> columnMap, metrics |-> metrics]]),
            Spread(tabs, [k \in {tabKey} |->
                            [metrics |-> metrics, stats |-> EmptyObj, columnMap |-> columnMap]]),
            tabKey, TRUE>>

MissingEntry(profile, reason) ==
  [label |-> LabelOf(profile), steamId |-> profile.steamId,
   steamUrl |-> profile.steamUrl, reason |-> reason]

\* The profiles a pass is given: player i has the i-th id; a display name
\* may be shared, a profile without one is labelled by its fallback name.
ScIds == <<IdA, IdB, "76561198000000003", "76561198000000004">>
ScFallbacks == <<"fb1", "fb2", "fb3", "fb4">>

ScProfile(i, displayName) ==
  [steamId |-> ScIds[i], steamUrl |-> NULL, displayName |-> displayName,
   fallbackName |-> Or(displayName, ScFallbacks[i])]

ScProfileSeqs ==
  UNION {{[i \in 1..n |-> ScProfile(i, names[i])] : names \in [1..n -> {"Al", NULL}]} :
           n \in 0..MaxPlayers}

\* The tabs a player's row may be missing from.
AbsencePatterns == {{}, {"pvp"}, {"pve"}, {"building"}, Range(TAB_KEYS)}

PageRows(n) ==
  {[t \in Range(TAB_KEYS) |-> {i \in 1..n : t \notin absent[i]}] :
     absent \in [1..n -> AbsencePatterns]}

TabsOptions == {<<>>, <<"farming", "pve">>}

\* The tabs whose table shows no row at all: none, or one of the tabs in
\* which no player of the pass has a row.
EmptyTables(rows) == {{}} \cup {{t} : t \in {k \in {"pvp", "pve", "farming"} : rows[k] = {}}}

\* ensureTabReady throws: for a tab not in tabCache it awaits the first
\* table row of the tab it selected, and mapTableColumns the first header,
\* outside any try block.
EnsureTabReadyThrows(tabCache, tabKey, noRows) ==
  tabKey \notin DOMAIN tabCache /\ tabKey \in noRows

\* A pass that starts with the missing list and index set of the pass
\* before, as if they were kept outside the function.
PassStartKeepsMissing ==
  /\ scPhase' = "profiles"
  /\ scOuter' = 1
  /\ scInner' = 0
  /\ scTabCache' = EmptyObj
  /\ scTabs' = EmptyObj
  /\ scStats' = EmptyObj
  /\ UNCHANGED <<scMissing, scMissingIndexes>>
  /\ scLog' = <<>>
  /\ scResolved' = <<>>
  /\ scResult' = NoCache
  /\ pgActiveTab' = "pvp"

\* The locals of scrapePlayers as the tab loop begins.
PassStart ==
  /\ scPhase' = "profiles"
  /\ scOuter' = 1
  /\ scInner' = 0
  /\ scTabCache' = EmptyObj
  /\ scTabs' = EmptyObj
  /\ scStats' = EmptyObj
  /\ scMissing' = <<>>
  /\ scMissingIndexes' = {}
  /\ scLog' = <<>>
  /\ scResolved' = <<>>
  /\ scResult' = NoCache
  /\ pgActiveTab' = "pvp"

ScrapeInit ==
  /\ scProfiles \in ScProfileSeqs
  /\ scTabsOption \in TabsOptions
  /\ pgRows \in PageRows(Len(scProfiles))
  /\ pgNoRows \in EmptyTables(pgRows)
  /\ pgAvatarStalls \in BOOLEAN
  /\ scStrategy \in {"perTab", "perPlayer"}
  /\ scPhase = "opening"
  /\ scCloses = 0
  /\ scOuter = 1
  /\ scInner = 0
  /\ scTabCache = EmptyObj
  /\ scTabs = EmptyObj
  /\ scStats = EmptyObj
  /\ scMissing = <<>>
  /\ scMissingIndexes = {}
  /\ scLog = <<>>
  /\ scResolved = <<>>
  /\ scResult = NoCache
  /\ scPrev = NoCache
  /\ pgActiveTab = "pvp"

scTabEntries == TabEntries(scTabsOption)
scInputs == <<scProfiles, scTabsOption, scStrategy, pgRows, pgNoRows, pgAvatarStalls, scPrev>>

\* The exception leaves scrapePlayers through its finally block, which
\* closes the browser.
ScrapeThrows ==
  /\ scPhase' = "thrown"
  /\ scCloses' = scCloses + 1
  /\ UNCHANGED <<scInputs, scOuter, scInner, scTabCache, scTabs, scStats, pgActiveTab,
                 scMissing, scMissingIndexes, scLog, scResolved, scResult>>

\* chromium.launch() has returned the browser; browser.newPage() is awaited
\* before the try block is entered, so its rejection leaves scrapePlayers
\* past the finally block.
OpenPage ==
  /\ scPhase = "opening"
  /\ scPhase' \in {"navigate", "thrown"}
  /\ UNCHANGED <<scInputs, scOuter, scInner, scTabCache, scTabs, scStats, pgActiveTab,
                 scMissing, scMissingIndexes, scLog, scResolved, scResult, scCloses>>
  /\ UNCHANGED <<fnVars, rtVars, svVars, pfVars>>

\* page.goto and selectServer, inside the try block: they return, or one
\* of them throws (a navigation timeout, a server name not in the list).
Navigate ==
  /\ scPhase = "navigate"
  /\ \/ /\ scPhase' = "profiles"
        /\ UNCHANGED <<scInputs, scOuter, scInner, scTabCache, scTabs, scStats, pgActiveTab,
                       scMissing, scMissingIndexes, scLog, scResolved, scResult, scCloses>>
     \/ ScrapeThrows
  /\ UNCHANGED <<fnVars, rtVars, svVars, pfVars>>

\* The profile loop is over.  Every player of the pass has its profile
\* fetched (a roster entry holds no color), and fetchSteamProfile awaits
\* sampleDominantColor, whose page.evaluate awaits a fetch of the avatar
\* inside the page with no timeout: it returns once the avatar host has
\* answered or refused.
LoadProfiles ==
  /\ scPhase = "profiles"
  /\ scProfiles = <<>> \/ ~pgAvatarStalls
  /\ scPhase' = "loop"
  /\ UNCHANGED <<scInputs, scOuter, scInner, scTabCache, scTabs, scStats, pgActiveTab,
                 scMissing, scMissingIndexes, scLog, scResolved, scResult, scCloses>>
  /\ UNCHANGED <<fnVars, rtVars, svVars, pfVars>>

\* perTab: the head of one turn of the outer loop (ensureTabReady, stats = {}).
PerTabBegin ==
  /\ scPhase = "loop" /\ scStrategy = "perTab"
  /\ scOuter <= Len(scTabEntries) /\ scInner = 0
  /\ IF EnsureTabReadyThrows(scTabCache, scTabEntries[scOuter], pgNoRows)
       THEN ScrapeThrows
       ELSE /\ LET ready == EnsureTabReady(scTabCache, scTabs, pgActiveTab, scTabEntries[scOuter])
               IN /\ scTabCache' = ready[1]
                  /\ scTabs' = ready[2]
                  /\ pgActiveTab' = ready[3]
                  /\ scResolved' = IF ready[4] THEN Append(scResolved, scTabEntries[scOuter])
                                   ELSE scResolved
            /\ scStats' = EmptyObj
            /\ scInner' = 1
            /\ UNCHANGED <<scInputs, scPhase, scOuter, scMissing, scMissingIndexes, scLog,
                           scResult, scCloses>>
  /\ UNCHANGED <<fnVars, rtVars, svVars, pfVars>>

\* perTab: one turn of the inner loop over the profiles.
PerTabVisit ==
  /\ scPhase = "loop" /\ scStrategy = "perTab"
  /\ scOuter <= Len(scTabEntries) /\ scInner \in 1..Len(scProfiles)
  /\ LET tabKey == scTabEntries[scOuter]
         profile == scProfiles[scInner]
         found == RowFound(pgRows, pgActiveTab, scInner)
     IN IF SkipsPlayer(ScrapePvp(scTabsOption), scMissingIndexes, scInner, tabKey)
          THEN UNCHANGED <<scStats, scMissing, scMissingIndexes, scLog>>
          ELSE /\ scLog' = Append(scLog, [tab |-> tabKey, player |-> scInner,
                                          table |-> pgActiveTab, ok |-> found])
               /\ scStats' = IF found
                               THEN SetStats(scStats, LabelOf(profile),
                                      StatsRead(pgActiveTab, scTabCache[tabKey].columnMap, scInner))
                               ELSE scStats
               /\ IF ~found /\ tabKey = "pvp"
                    THEN /\ scMissingIndexes' = scMissingIndexes \cup {scInner}
                         /\ scMissing' = Append(scMissing, MissingEntry(profile, ErrNoRow))
                    ELSE UNCHANGED <<scMissing, scMissingIndexes>>
  /\ scInner' = scInner + 1
  /\ UNCHANGED <<scInputs, scPhase, scOuter, scTabCache, scTabs, pgActiveTab, scResolved,
                 scResult, scCloses>>
  /\ UNCHANGED <<fnVars, rtVars, svVars, pfVars>>

\* perTab: the foot of one turn of the outer loop.
PerTabEnd ==
  /\ scPhase = "loop" /\ scStrategy = "perTab"
  /\ scOuter <= Len(scTabEntries) /\ scInner = Len(scProfiles) + 1
  /\ LET tabKey == scTabEntries[scOuter]
     IN scTabs' = Spread(scTabs, [k \in {tabKey} |->
                    [metrics |-> scTabCache[tabKey].metrics, stats |-> scStats,
                     columnMap |-> scTabCache[tabKey].columnMap]])
  /\ scOuter' = scOuter + 1
  /\ scInner' = 0
  /\ UNCHANGED <<scInputs, scPhase, scTabCache, scStats, pgActiveTab,
                 scMissing, scMissingIndexes, scLog, scResolved, scResult, scCloses>>
  /\ UNCHANGED <<fnVars, rtVars, svVars, pfVars>>

\* perPlayer: one turn of the inner loop over the tabs, for the profile of
\* the outer loop.
PerPlayerVisit ==
  /\ scPhase = "loop" /\ scStrategy = "perPlayer"
  /\ scOuter <= Len(scProfiles) /\ Len(scTabEntries) > 0
  /\ LET tabIndex == IF scInner = 0 THEN 1 ELSE scInner
         tabKey == scTabEntries[tabIndex]
         profile == scProfiles[scOuter]
         ready == EnsureTabReady(scTabCache, scTabs, pgActiveTab, tabKey)
         found == RowFound(pgRows, ready[3], scOuter)
         skips == SkipsPlayer(ScrapePvp(scTabsOption), scMissingIndexes, scOuter, tabKey)
     IN IF ~skips /\ (EnsureTabReadyThrows(scTabCache, tabKey, pgNoRows) \/ ready[3] \in pgNoRows)
          THEN ScrapeThrows
          ELSE /\ IF skips
                    THEN UNCHANGED <<scTabCache, scTabs, pgActiveTab, scMissing,
                                     scMissingIndexes, scLog, scResolved>>
                    ELSE /\ scTabCache' = ready[1]
                         /\ scResolved' = IF ready[4] THEN Append(scResolved, tabKey)
                                          ELSE scResolved
                         /\ pgActiveTab' = ready[3]
                         /\ scLog' = Append(scLog, [tab |-> tabKey, player |-> scOuter,
                                                    table |-> ready[3], ok |-> found])
                         /\ scTabs' = IF found
                                        THEN [ready[2] EXCEPT ![tabKey].stats =
                                                SetStats(@, LabelOf(profile),
                                                  StatsRead(ready[3], ready[1][tabKey].columnMap,
                                                            scOuter))]
                                        ELSE ready[2]
                         /\ IF ~found /\ tabKey = "pvp"
                              THEN /\ scMissingIndexes' = scMissingIndexes \cup {scOuter}
                                   /\ scMissing' = Append(scMissing, MissingEntry(profile, ErrNoRow))
                              ELSE UNCHANGED <<scMissing, scMissingIndexes>>
               /\ IF tabIndex < Len(scTabEntries)
                    THEN scInner' = tabIndex + 1 /\ scOuter' = scOuter
                    ELSE scInner' = 0 /\ scOuter' = scOuter + 1
               /\ UNCHANGED <<scInputs, scPhase, scStats, scResult, scCloses>>
  /\ UNCHANGED <<fnVars, rtVars, svVars, pfVars>>

\* profilesWithStatus with every profile reported as found.
ProfilesWithStatusAllFound(profiles, scrapePvp, missingIdx) ==
  [i \in DOMAIN profiles |-> Spread(profiles[i], [missing |-> FALSE])]

\* profilesWithStatus
ProfilesWithStatus(profiles, scrapePvp, missingIdx) ==
  [i \in DOMAIN profiles |->
     Spread(profiles[i], [missing |-> IF scrapePvp THEN i \in missingIdx ELSE FALSE])]

LoopsOver ==
  IF scStrategy = "perTab" THEN scOuter > Len(scTabEntries)
  ELSE scOuter > Len(scProfiles) \/ Len(scTabEntries) = 0

\* return { profiles: profilesWithStatus, tabs, missing, serverInfo, timings }
\* and the finally block, which closes the browser.
ScrapeReturn ==
  /\ scPhase = "loop" /\ LoopsOver
  /\ scResult' = [profiles |-> ProfilesWithStatus(scProfiles, ScrapePvp(scTabsOption), scMissingIndexes),
                  tabs |-> scTabs,
                  missing |-> scMissing,
                  strategy |-> scStrategy]
  /\ scPhase' = "done"
  /\ scCloses' = scCloses + 1
  /\ UNCHANGED <<scInputs, scOuter, scInner, scTabCache, scTabs, scStats, pgActiveTab,
                 scMissing, scMissingIndexes, scLog, scResolved>>
  /\ UNCHANGED <<fnVars, rtVars, svVars, pfVars>>

\* scrapePlayers is invoked again for the same players against the same
\* page: a new browser is launched, and its page opened and brought to the
\* server's stats.
ScrapeAgain ==
  /\ scPhase = "done" /\ scPrev = NoCache
  /\ scPrev' = scResult
  /\ scCloses' = 0
  /\ scStrategy' \in {"perTab", "perPlayer"}
  /\ PassStart
  /\ UNCHANGED <<scProfiles, scTabsOption, pgRows, pgNoRows, pgAvatarStalls>>
  /\ UNCHANGED <<fnVars, rtVars, svVars, pfVars>>

ScrapeNext ==
  OpenPage \/ Navigate \/ LoadProfiles \/ PerTabBegin \/ PerTabVisit \/ PerTabEnd \/ PerPlayerVisit \/ ScrapeReturn \/ ScrapeAgain

ScrapeIdle ==
  /\ scProfiles = <<>> /\ scTabsOption = <<>> /\ scStrategy = "none"
  /\ pgRows = EmptyObj /\ pgNoRows = {} /\ pgAvatarStalls = FALSE /\ pgActiveTab = "none"
  /\ scPhase = "idle" /\ scOuter = 0 /\ scInner = 0
  /\ scTabCache = EmptyObj /\ scTabs = EmptyObj /\ scStats = EmptyObj
  /\ scMissing = <<>> /\ scMissingIndexes = {} /\ scLog = <<>> /\ scResolved = <<>>
  /\ scResult = NoCache /\ scPrev = NoCache /\ scCloses = 0

(***************************************************************************)
(* Request handlers (server.js).  The roster file and the cache file are   *)
(* read and written synchronously; a handler gives up control only at an   *)
(* await, so each action runs a handler from one await to the next.  What  *)
(* Steam and the stats site answer is the environment: a profile fetch     *)
(* succeeds or not, a scrape throws or returns, a player's row is there or *)
(* not.  A statistic read from the stats site records whose row it is.     *)
(***************************************************************************)
MaxRequests == 2
MIN_COMPARE_PLAYERS == 2
MAX_PLAYERS == 10

ServerNames == Range(ALLOWED_SERVERS)

\* What Steam serves for a profile URL: persona name, avatar, 64-bit id.
SteamPersona(url) ==
  CASE url = UrlA -> "Ally"
    [] url = UrlB -> "Bo"
    [] url \in {UrlV, UrlVP} -> "Gabe"
    [] url \in Range(MoreUrls) -> "Cy"
    [] OTHER -> NULL

SteamAvatar(url) == IF SteamPersona(url) = NULL THEN NULL ELSE "avatar.jpg"

SteamIdOfPage(url) ==
  CASE url = UrlA -> IdA
    [] url = UrlB -> IdB
    [] url \in {UrlV, UrlVP} -> IdV
    [] url \in Range(MoreUrls) -> MoreIds[PlaceOf(url, MoreUrls)]
    [] OTHER -> NULL

\* /^https?:\/\//i.test(String(steamUrl))
IsHttpUrl(u) == u \in {UrlA, UrlB, UrlV, UrlVP, UrlRoot} \cup Range(MoreUrls)

\* `https://steamcommunity.com/profiles/${steamId}`
ProfilesUrl(steamId) ==
  CASE steamId = IdA -> UrlA
    [] steamId = IdB -> UrlB
    [] steamId \in Range(MoreIds) -> MoreUrls[PlaceOf(steamId, MoreIds)]
    [] OTHER -> UrlVP

\* buildSteamUrl (server.js) and buildSteamProfileUrl (moose_scraper.js).
buildSteamUrl(steamUrl, steamId) ==
  IF steamUrl # NULL /\ IsHttpUrl(steamUrl) THEN steamUrl
  ELSE IF isValidSteamId(steamId) THEN ProfilesUrl(steamId)
  ELSE NULL

fetchSteamProfileSummaryFromUrl(steamUrl, net) ==
  IF steamUrl = NULL \/ ~net \/ SteamPersona(steamUrl) = NULL THEN EmptyObj
  ELSE [displayName |-> SteamPersona(steamUrl), avatarUrl |-> SteamAvatar(steamUrl)]

fetchSteamProfileSummary(steamUrl, steamId, net) ==
  LET primaryUrl == buildSteamUrl(steamUrl, NULL)
      fallbackUrl == buildSteamUrl(NULL, steamId)
      primary == fetchSteamProfileSummaryFromUrl(primaryUrl, net)
  IN IF Get(primary, "displayName") # NULL /\ Get(primary, "avatarUrl") # NULL THEN primary
     ELSE IF fallbackUrl # NULL /\ fallbackUrl # primaryUrl
       THEN LET fallback == fetchSteamProfileSummaryFromUrl(fallbackUrl, net)
            IN [displayName |-> Or(Get(primary, "displayName"), Get(fallback, "displayName")),
                avatarUrl |-> Or(Get(primary, "avatarUrl"), Get(fallback, "avatarUrl"))]
       ELSE primary

\* resolveSteamId64 of server.js: the id in a /profiles/ URL.  For a vanity
\* URL the lookup calls lookupResp.ok(), which a fetch Response does not
\* have as a function, so the call ends in the catch and returns null; the
\* remaining URLs have no page with a steamID64.
resolveSteamId64(steamUrl) ==
  IF steamUrl = NULL THEN NULL
  ELSE IF isValidSteamId(steamIdFromUrl(steamUrl)) THEN steamIdFromUrl(steamUrl)
  ELSE NULL

normalizePlayer(steamUrl, net) ==
  LET resolved == resolveSteamId64(steamUrl)
      normalizedUrl == buildSteamUrl(steamUrl, resolved)
      profile == fetchSteamProfileSummary(Or(normalizedUrl, steamUrl), resolved, net)
  IN [steamUrl |-> Or(normalizedUrl, steamUrl),
      steamId |-> Or(resolved, steamIdFromUrl(steamUrl)),
      displayName |-> Get(profile, "displayName"),
      avatarUrl |-> Get(profile, "avatarUrl")]

\* The players.map callback of hydratePlayers.
HydrateOne(player, net) ==
  LET needsId == ~isValidSteamId(player.steamId)
      needsProfile == player.displayName = NULL \/ player.avatarUrl = NULL
      normalizedUrl == buildSteamUrl(player.steamUrl, player.steamId)
      resolvedId == IF needsId THEN resolveSteamId64(Or(normalizedUrl, player.steamUrl)) ELSE NULL
      profile == IF needsProfile
                   THEN fetchSteamProfileSummary(Or(normalizedUrl, player.steamUrl),
                                                 Or(resolvedId, player.steamId), net)
                   ELSE EmptyObj
  IN IF ~needsId /\ ~needsProfile THEN player
     ELSE Spread(player,
            [steamUrl |-> Or(normalizedUrl, player.steamUrl),
             steamId |-> IF isValidSteamId(player.steamId) THEN player.steamId
                         ELSE Or(resolvedId, player.steamId),
             displayName |-> Or(player.displayName, Get(profile, "displayName")),
             avatarUrl |-> Or(player.avatarUrl, Get(profile, "avatarUrl"))])

\* hydratePlayers: the hydrated list, and whether it is saved to the roster.
hydratePlayers(players, net) ==
  LET hydrated == [i \in DOMAIN players |-> HydrateOne(players[i], net)]
  IN [players |-> hydrated,
      changed |-> \E i \in DOMAIN players :
                    \/ hydrated[i].displayName # players[i].displayName
                    \/ hydrated[i].avatarUrl # players[i].avatarUrl
                    \/ hydrated[i].steamId # players[i].steamId]

\* resolveSteamId64 of moose_scraper.js.
ScraperResolveSteamId64(steamUrl, net) ==
  IF isValidSteamId(steamIdFromUrl(steamUrl)) THEN steamIdFromUrl(steamUrl)
  ELSE IF net THEN SteamIdOfPage(steamUrl)
  ELSE NULL

\* fetchSteamProfile once profileUrl is built.
FetchedProfile(steamUrl, steamIdInput, net, profileUrl) ==
  LET steamId == steamIdFromUrl(Or(profileUrl, steamUrl))
      fetched == profileUrl # NULL /\ net /\ SteamPersona(profileUrl) # NULL
      fromPage == IF fetched THEN SteamIdOfPage(profileUrl) ELSE Or(steamIdInput, steamId)
      resolved == IF isValidSteamId(fromPage) THEN fromPage
                  ELSE Or(ScraperResolveSteamId64(Or(profileUrl, steamUrl), net), fromPage)
  IN [steamUrl |-> Or(profileUrl, steamUrl),
      steamId |-> Or(resolved, steamId),
      displayName |-> IF fetched THEN SteamPersona(profileUrl) ELSE Or(steamId, steamUrl),
      avatarUrl |-> IF fetched THEN SteamAvatar(profileUrl) ELSE FALLBACK_AVATAR,
      color |-> "#66c0f4"]

fetchSteamProfile(steamUrl, steamIdInput, net) ==
  FetchedProfile(steamUrl, steamIdInput, net, buildSteamUrl(steamUrl, steamIdInput))

\* resolvedSteamId = numericFetchedId || numericStoredId || steamProfile.steamId
ResolvedSteamId(p, steamProfile) ==
  IF isValidSteamId(steamProfile.steamId) THEN steamProfile.steamId
  ELSE IF isValidSteamId(Get(p, "steamId")) THEN p.steamId
  ELSE steamProfile.steamId

\* The display name a scraped profile gets: the stored one when the fetch
\* fell back to the id or the url.
ScrapedName(p, steamProfile) ==
  IF /\ Get(p, "displayName") # NULL
     /\ steamProfile.displayName \in {steamProfile.steamId, Get(p, "steamId"), Get(p, "steamUrl")}
    THEN p.displayName ELSE steamProfile.displayName

\* profiles.push({...}) of the profile loop of scrapePlayers.
PushedProfile(p, steamProfile, resolvedSteamId, displayName) ==
  Spread(steamProfile,
    [steamId |-> resolvedSteamId,
     displayName |-> displayName,
     avatarUrl |-> IF steamProfile.avatarUrl = FALLBACK_AVATAR /\ Get(p, "avatarUrl") # NULL
                     THEN p.avatarUrl ELSE steamProfile.avatarUrl,
     fallbackName |-> Or(Get(p, "fallbackName"),
                         Or(displayName, Or(Get(p, "steamId"), Get(p, "steamUrl")))),
     searchKey |-> Or(resolvedSteamId, Or(steamIdFromUrl(Get(p, "steamUrl")), Get(p, "steamUrl")))])

\* steamProfile = needsProfile ? await fetchSteamProfile(...) : {...}
SteamProfileOf(p, net) ==
  IF \/ Get(p, "displayName") = NULL \/ Get(p, "avatarUrl") = NULL
     \/ ~isValidSteamId(Get(p, "steamId")) \/ Get(p, "color") = NULL
    THEN fetchSteamProfile(Get(p, "steamUrl"), Get(p, "steamId"), net)
    ELSE [steamUrl |-> p.steamUrl, steamId |-> p.steamId,
          displayName |-> p.displayName, avatarUrl |-> p.avatarUrl, color |-> p.color]

ScrapedFrom(p, steamProfile) ==
  PushedProfile(p, steamProfile, ResolvedSteamId(p, steamProfile), ScrapedName(p, steamProfile))

\* One turn of the profile loop of scrapePlayers.
ScrapedProfile(p, net) == ScrapedFrom(p, SteamProfileOf(p, net))

\* What getPlayerStats reads from the row of a profile on a tab.
RowStats(tabKey, profile) == [table |-> tabKey, row |-> profile.steamId, url |-> profile.steamUrl]

\* The last of the found profiles under a label.
LastWithLabel(profiles, found, label) ==
  CHOOSE i \in found :
    /\ LabelOf(profiles[i]) = label
    /\ \A j \in found : LabelOf(profiles[j]) = label => j <= i

\* The stats of one tab: the found profiles in order, the last under a
\* label staying.
TabStats(tabKey, profiles, found) ==
  [label \in {LabelOf(profiles[i]) : i \in found} |->
     RowStats(tabKey, profiles[LastWithLabel(profiles, found, label)])]

MissingEntries(missingProfiles) ==
  [i \in DOMAIN missingProfiles |-> MissingEntry(missingProfiles[i], ErrNoRow)]

\* The result of a pass over all tabs, tab by tab, in which the profiles at
\* missingIdx were not found on the PvP tab and so skipped on the others.
ScrapeResult(profiles, missingIdx) ==
  [profiles |-> ProfilesWithStatus(profiles, TRUE, missingIdx),
   tabs |-> [tabKey \in Range(TAB_KEYS) |->
               [metrics |-> <<tabKey>>,
                stats |-> TabStats(tabKey, profiles, (DOMAIN profiles) \ missingIdx),
                columnMap |-> ColumnMapOf(tabKey, tabKey)]],
   missing |-> MissingEntries(KeepIdx(profiles, missingIdx)),
   serverInfo |-> NULL]

\* A profile without a valid id has no row; the rows in absent are not there.
MissingIdxOf(profiles, absent) ==
  {i \in DOMAIN profiles : i \in absent \/ ~isValidSteamId(profiles[i].steamId)}

ScrapeOf(profiles, absent) == ScrapeResult(profiles, MissingIdxOf(profiles, absent))

\* What scrapePlayers(players, serverName, onStatus) returns when it does
\* not throw.
scrapePlayers(players, net, absent) ==
  ScrapeOf([i \in DOMAIN players |-> ScrapedProfile(players[i], net)], absent)

\* The rows the stats site may lack during one scrape of n players.
AbsentRows(n) == {S \in SUBSET (1..n) : S \subseteq {1}}

\* loadCacheStore / getServerCache / setServerCache over { servers: {...} }.
getServerCache(store, serverName) ==
  IF serverName \in DOMAIN store THEN store[serverName] ELSE NoCache

setServerCache(store, serverName, cache) == Spread(store, [k \in {serverName} |-> cache])

\* A cache written without the profiles of the scrape result.
ScrapedCacheNoProfiles(serverName, result, players) ==
  [serverName |-> serverName,
   profiles |-> <<>>,
   tabs |-> result.tabs,
   missing |-> result.missing,
   serverInfo |-> result.serverInfo]

\* The cache POST /api/refresh and GET /api/data write for a scrape result.
ScrapedCache(serverName, result, players) ==
  [serverName |-> serverName,
   profiles |-> attachPlayerIds(result.profiles, players),
   tabs |-> result.tabs,
   missing |-> result.missing,
   serverInfo |-> result.serverInfo]

IsIntegerString(s) == s \in {"0", "1", IdA, IdB, IdV}

\* Number(req.params.id); an id of 17 digits is beyond every roster index.
NumberOf(s) ==
  CASE s = "0" -> 0
    [] s = "1" -> 1
    [] OTHER -> MAX_PLAYERS

\* The DELETE /api/players/:id handler on the loaded roster and store:
\* the roster and store it saves and the player it removed (NoCache when
\* nothing matched and it answered without saving).
deletePlayer(loaded, store, id, steamUrl, byIndex) ==
  LET targets == {id, steamIdFromUrl(steamUrl)} \ {NULL}
      index == NumberOf(id)
      atIndex == byIndex /\ IsIntegerString(id) /\ index >= 0 /\ index < Len(loaded)
      hits == {i \in DOMAIN loaded : IdOrUrlId(loaded[i]) \in targets}
      firstHit == CHOOSE i \in hits : \A j \in hits : i <= j
      removed == IF atIndex THEN loaded[index + 1]
                 ELSE IF hits = {} THEN NoCache
                 ELSE loaded[firstHit]
      next == IF atIndex THEN KeepIdx(loaded, (DOMAIN loaded) \ {index + 1})
              ELSE KeepIdx(loaded, (DOMAIN loaded) \ hits)
  IN IF IsNoCache(removed)
       THEN [players |-> loaded, store |-> store, removed |-> NoCache]
       ELSE [players |-> next,
             store |-> [name \in DOMAIN store |-> removePlayerFromCache(store[name], removed)],
             removed |-> removed]

DeleteIdPool == {"0", IdA, IdB}
DeleteUrlPool == {NULL, UrlB}
AddUrlPool == {UrlA, UrlV}

\* Rosters the roster file may hold when the server starts.
RosterEntry(url, id, displayName) ==
  [steamUrl |-> url, steamId |-> id, displayName |-> displayName, avatarUrl |-> "stored.jpg"]

InitialRosters ==
  {<<>>,
   <<RosterEntry(UrlA, IdA, "Al"), RosterEntry(UrlB, IdB, "Bo")>>,
   <<RosterEntry(UrlA, IdA, "Al"), RosterEntry(UrlB, IdB, "Al")>>}

\* A roster of MAX_PLAYERS players, as ten accepted POST /api/players
\* requests leave it.
FullRoster ==
  <<RosterEntry(UrlA, IdA, "Al"), RosterEntry(UrlB, IdB, "Bo")>> \o
  [k \in DOMAIN MoreIds |-> RosterEntry(MoreUrls[k], MoreIds[k], "Cy")] \o
  <<RosterEntry(UrlVP, IdV, "Gabe")>>

NoResponse == [kind |-> "none", status |-> 0, removed |-> NoCache]

ServerInit ==
  /\ playersFile \in InitialRosters
  /\ cacheFile = EmptyObj
  /\ refreshInFlight = FALSE
  /\ requests = EmptyBag
  /\ received = 0
  /\ lastResponse = NoResponse

\* The handlers that are at an await.
Pending == BagToSet(requests)

Receive(q) == requests (+) SetToBag({q})
Continue(q, next) == (requests (-) SetToBag({q})) (+) SetToBag({next})
Finish(q) == requests (-) SetToBag({q})

Respond(kind, status) == [kind |-> kind, status |-> status, removed |-> NoCache]

\* The number of requests that are inside scrapePlayers.
Scraping ==
  LET inside == {q \in Pending : q.pc \in {"scrape", "stalled"}}
  IN BagCardinality([q \in inside |-> requests[q]])

\* POST /api/refresh is received: loadPlayers(), then await hydratePlayers.
RefreshArrive ==
  /\ received < MaxRequests
  /\ received' = received + 1
  /\ \E serverName \in ServerNames :
       requests' = Receive([kind |-> "refresh", pc |-> "hydrate",
                            serverName |-> serverName, players |-> playersFile])
  /\ UNCHANGED <<playersFile, cacheFile, refreshInFlight, lastResponse>>
  /\ UNCHANGED <<fnVars, rtVars, scVars, pfVars>>

\* POST /api/refresh from the end of hydratePlayers to the call of
\* scrapePlayers; the 429 return is inside the try, so the finally block
\* runs on it.  The scrape fetches every roster player's profile (a roster
\* entry holds no color), and its in-page avatar fetch has no timeout: the
\* call either comes back (pc "scrape") or never does (pc "stalled").
RefreshHydrated ==
  \E q \in Pending, net \in BOOLEAN :
    LET h == hydratePlayers(q.players, net)
    IN /\ q.kind = "refresh" /\ q.pc = "hydrate"
       /\ playersFile' = IF h.changed THEN h.players ELSE playersFile
       /\ IF Len(h.players) < MIN_COMPARE_PLAYERS
            THEN /\ requests' = Finish(q)
                 /\ lastResponse' = Respond("refresh", 400)
                 /\ UNCHANGED refreshInFlight
            ELSE IF refreshInFlight
              THEN /\ requests' = Finish(q)
                   /\ lastResponse' = Respond("refresh", 429)
                   /\ refreshInFlight' = FALSE
              ELSE /\ \E pc \in {"scrape", "stalled"} :
                        requests' = Continue(q, [q EXCEPT !.pc = pc, !.players = h.players])
                   /\ refreshInFlight' = TRUE
                   /\ UNCHANGED lastResponse
       /\ UNCHANGED <<cacheFile, received>>
       /\ UNCHANGED <<fnVars, rtVars, scVars, pfVars>>

\* POST /api/refresh from the end of scrapePlayers to the response.
RefreshScraped ==
  \E q \in Pending :
    /\ q.kind = "refresh" /\ q.pc = "scrape"
    /\ \/ /\ lastResponse' = Respond("refresh", 500)
          /\ UNCHANGED cacheFile
       \/ \E net \in BOOLEAN, absent \in AbsentRows(Len(q.players)) :
            LET result == scrapePlayers(q.players, net, absent)
            IN /\ cacheFile' = setServerCache(cacheFile, q.serverName,
                                 ScrapedCache(q.serverName, result, q.players))
               /\ lastResponse' = Respond("refresh", 200)
    /\ requests' = Finish(q)
    /\ refreshInFlight' = FALSE
    /\ UNCHANGED <<playersFile, received>>
    /\ UNCHANGED <<fnVars, rtVars, scVars, pfVars>>

\* GET /api/data is received.
DataArrive ==
  /\ received < MaxRequests
  /\ received' = received + 1
  /\ \E serverName \in ServerNames :
       requests' = Receive([kind |-> "data", pc |-> "hydrate",
                            serverName |-> serverName, players |-> playersFile,
                            store |-> EmptyObj])
  /\ UNCHANGED <<playersFile, cacheFile, refreshInFlight, lastResponse>>
  /\ UNCHANGED <<fnVars, rtVars, scVars, pfVars>>

\* GET /api/data from the end of hydratePlayers: answer from the cache, or
\* on a miss with enough players call scrapePlayers, keeping the store it
\* loaded; the call comes back or stalls, as in POST /api/refresh.
DataHydrated ==
  \E q \in Pending, net \in BOOLEAN :
    LET h == hydratePlayers(q.players, net)
        response == buildResponseFromCache(getServerCache(cacheFile, q.serverName), h.players)
    IN /\ q.kind = "data" /\ q.pc = "hydrate"
       /\ playersFile' = IF h.changed THEN h.players ELSE playersFile
       /\ IF ~IsNoCache(response) \/ Len(h.players) < MIN_COMPARE_PLAYERS
            THEN /\ requests' = Finish(q)
                 /\ lastResponse' = Respond("data", 200)
            ELSE /\ \E pc \in {"scrape", "stalled"} :
                      requests' = Continue(q, [q EXCEPT !.pc = pc, !.players = h.players,
                                                        !.store = cacheFile])
                 /\ UNCHANGED lastResponse
       /\ UNCHANGED <<cacheFile, refreshInFlight, received>>
       /\ UNCHANGED <<fnVars, rtVars, scVars, pfVars>>

\* GET /api/data from the end of scrapePlayers to the response.
DataScraped ==
  \E q \in Pending :
    /\ q.kind = "data" /\ q.pc = "scrape"
    /\ \/ /\ lastResponse' = Respond("data", 500)
          /\ UNCHANGED cacheFile
       \/ \E net \in BOOLEAN, absent \in AbsentRows(Len(q.players)) :
            LET result == scrapePlayers(q.players, net, absent)
            IN /\ cacheFile' = setServerCache(q.store, q.serverName,
                                 ScrapedCache(q.serverName, result, q.players))
               /\ lastResponse' = Respond("data", 200)
    /\ requests' = Finish(q)
    /\ UNCHANGED <<playersFile, refreshInFlight, received>>
    /\ UNCHANGED <<fnVars, rtVars, scVars, pfVars>>

\* POST /api/players is received: the checks, then await normalizePlayer.
AddArrive ==
  /\ received < MaxRequests
  /\ received' = received + 1
  /\ \E steamUrl \in AddUrlPool, serverName \in ServerNames :
       IF \/ Len(playersFile) >= MAX_PLAYERS
          \/ \E i \in DOMAIN playersFile : playersFile[i].steamUrl = steamUrl
         THEN /\ lastResponse' = Respond("add", 400)
              /\ UNCHANGED requests
         ELSE /\ requests' = Receive([kind |-> "add", pc |-> "normalize",
                                      serverName |-> serverName, players |-> playersFile,
                                      steamUrl |-> steamUrl, failed |-> FALSE,
                                      cache |-> NoCache])
              /\ UNCHANGED lastResponse
  /\ UNCHANGED <<playersFile, cacheFile, refreshInFlight>>
  /\ UNCHANGED <<fnVars, rtVars, scVars, pfVars>>

\* POST /api/players from the end of normalizePlayer: the player is pushed
\* on the list loaded at arrival and the list saved; a player with a valid
\* id is scraped alone, by a call that comes back or stalls.
AddNormalized ==
  \E q \in Pending, net \in BOOLEAN :
    LET normalized == normalizePlayer(q.steamUrl, net)
        players == Append(q.players, normalized)
    IN /\ q.kind = "add" /\ q.pc = "normalize"
       /\ playersFile' = players
       /\ \E pc \in IF isValidSteamId(normalized.steamId) THEN {"scrape", "stalled"}
                     ELSE {"respond"} :
            requests' = Continue(q,
                          [q EXCEPT !.players = players,
                                    !.cache = getServerCache(cacheFile, q.serverName),
                                    !.pc = pc])
       /\ UNCHANGED <<cacheFile, refreshInFlight, received, lastResponse>>
       /\ UNCHANGED <<fnVars, rtVars, scVars, pfVars>>

\* mergePlayerStats(getServerCache(store, server), {serverName: server, ...})
MergeScraped(cache, serverName, result) ==
  mergePlayerStats(cache,
    [serverName |-> serverName, profiles |-> result.profiles, tabs |-> result.tabs,
     missing |-> result.missing, serverInfo |-> result.serverInfo])

AddMerged(q, serverCache) ==
  /\ cacheFile' = setServerCache(cacheFile, q.serverName, serverCache)
  /\ requests' = Continue(q, [q EXCEPT !.pc = "respond", !.cache = serverCache])

\* POST /api/players from the end of scrapePlayers([normalized]) to the
\* last await hydratePlayers: the result is merged into the cache on file.
AddScraped ==
  \E q \in Pending :
    /\ q.kind = "add" /\ q.pc = "scrape"
    /\ \/ /\ requests' = Continue(q, [q EXCEPT !.pc = "respond", !.failed = TRUE,
                                        !.cache = getServerCache(cacheFile, q.serverName)])
          /\ UNCHANGED cacheFile
       \/ \E net \in BOOLEAN, absent \in AbsentRows(1) :
            AddMerged(q, MergeScraped(getServerCache(cacheFile, q.serverName), q.serverName,
                                      scrapePlayers(<<q.players[Len(q.players)]>>, net, absent)))
    /\ UNCHANGED <<playersFile, refreshInFlight, received, lastResponse>>
    /\ UNCHANGED <<fnVars, rtVars, scVars, pfVars>>

\* POST /api/players from the end of its last hydratePlayers to the response.
AddResponded ==
  \E q \in Pending, net \in BOOLEAN :
    LET h == hydratePlayers(q.players, net)
        response == buildResponseFromCache(q.cache, h.players)
    IN /\ q.kind = "add" /\ q.pc = "respond"
       /\ playersFile' = IF h.changed THEN h.players ELSE playersFile
       /\ requests' = Finish(q)
       /\ lastResponse' = Respond("add", IF q.failed /\ IsNoCache(response) THEN 500 ELSE 200)
       /\ UNCHANGED <<cacheFile, refreshInFlight, received>>
       /\ UNCHANGED <<fnVars, rtVars, scVars, pfVars>>

\* DELETE /api/players/:id, which has no await.
DeletePlayer ==
  /\ received < MaxRequests
  /\ received' = received + 1
  /\ \E id \in DeleteIdPool, steamUrl \in DeleteUrlPool, byIndex \in BOOLEAN :
       LET d == deletePlayer(playersFile, cacheFile, id, steamUrl, byIndex)
       IN /\ playersFile' = d.players
          /\ cacheFile' = d.store
          /\ lastResponse' = [kind |-> "delete", status |-> 200, removed |-> d.removed]
  /\ UNCHANGED <<refreshInFlight, requests>>
  /\ UNCHANGED <<fnVars, rtVars, scVars, pfVars>>

PutIdPool == {0, 1}
PutNamePool == {NULL, "Zed"}

\* The roster entry PUT /api/players/:id writes for players[id].
UpdatedPlayer(player, nextUrl, nextId, nextName, resolvedId) ==
  LET finalId == Or(nextId, Or(resolvedId, player.steamId))
      normalizedUrl == buildSteamUrl(nextUrl, Or(finalId, player.steamId))
  IN Spread(player,
       [steamUrl |-> Or(normalizedUrl, Or(nextUrl, player.steamUrl)),
        steamId |-> Or(finalId, player.steamId),
        displayName |-> Or(nextName, player.displayName)])

\* PUT /api/players/:id with a steamName and no steamUrl or steamId, so
\* with no await before savePlayers: the entry is rewritten in the list
\* just loaded and the list saved, then await hydratePlayers.
PutArrive ==
  /\ received < MaxRequests
  /\ received' = received + 1
  /\ \E id \in PutIdPool, steamName \in PutNamePool, serverName \in ServerNames :
       IF steamName = NULL \/ id >= Len(playersFile)
         THEN /\ lastResponse' = Respond("put", IF steamName = NULL THEN 400 ELSE 404)
              /\ UNCHANGED <<requests, playersFile>>
         ELSE LET updated == UpdatedPlayer(playersFile[id + 1], NULL, NULL, steamName, NULL)
                  players == [playersFile EXCEPT ![id + 1] = updated]
              IN /\ playersFile' = players
                 /\ requests' = Receive([kind |-> "put", pc |-> "hydrate",
                                          serverName |-> serverName, players |-> players,
                                          id |-> id])
                 /\ UNCHANGED lastResponse
  /\ UNCHANGED <<cacheFile, refreshInFlight>>
  /\ UNCHANGED <<fnVars, rtVars, scVars, pfVars>>

\* The store PUT saves: every server's cached profiles overlaid with the
\* hydrated roster.
RewriteProfiles(store, hydrated) ==
  [name \in DOMAIN store |->
     Spread(store[name], [profiles |-> mergeCachedProfiles(store[name].profiles, hydrated)])]

PutAnswer(q, hydrated, store) ==
  /\ cacheFile' = store
  /\ \E body \in {buildResponseFromCache(getServerCache(store, q.serverName), hydrated)} :
       lastResponse' = [kind |-> "put", status |-> 200, removed |-> NoCache,
                        serverName |-> q.serverName, player |-> hydrated[q.id + 1],
                        body |-> body]

\* PUT /api/players/:id from the end of hydratePlayers to the response.
PutHydrated ==
  \E q \in Pending, net \in BOOLEAN :
    /\ q.kind = "put" /\ q.pc = "hydrate"
    /\ \E h \in {hydratePlayers(q.players, net)} :
         /\ playersFile' = IF h.changed THEN h.players ELSE playersFile
         /\ \E store \in {RewriteProfiles(cacheFile, h.players)} :
              PutAnswer(q, h.players, store)
    /\ requests' = Finish(q)
    /\ UNCHANGED <<refreshInFlight, received>>
    /\ UNCHANGED <<fnVars, rtVars, scVars, pfVars>>

\* byId.get(id): Map.set keeps the last player set under a key.
LastWithKey(list, id) ==
  CHOOSE i \in DOMAIN list :
    /\ IdOrUrlId(list[i]) = id
    /\ \A j \in DOMAIN list : IdOrUrlId(list[j]) = id => j <= i

\* order.map((id) => byId.get(String(id))).filter(Boolean)
RECURSIVE OrderedBy(_, _)
OrderedBy(list, order) ==
  IF order = <<>> THEN <<>>
  ELSE IF \E i \in DOMAIN list : IdOrUrlId(list[i]) = Head(order)
    THEN <<list[LastWithKey(list, Head(order))]>> \o OrderedBy(list, Tail(order))
    ELSE OrderedBy(list, Tail(order))

\* [...ordered, ...remainder]
Reordered(list, order) ==
  OrderedBy(list, order) \o
    KeepIdx(list, {i \in DOMAIN list : IdOrUrlId(list[i]) \notin Range(order)})

\* The order arrays of the requests: a move, a full order, an id listed
\* twice, an id no player has.
OrderPool == {<<IdB>>, <<IdB, IdA>>, <<IdA, IdA>>, <<IdV>>}

\* POST /api/players/reorder is received with a non-empty order: the roster
\* is reordered and saved, then await hydratePlayers.  (serverName only
\* selects the cache the response body is built from.)
ReorderArrive ==
  /\ received < MaxRequests
  /\ received' = received + 1
  /\ \E order \in OrderPool :
       /\ playersFile' = Reordered(playersFile, order)
       /\ requests' = Receive([kind |-> "reorder", pc |-> "hydrate",
                                players |-> Reordered(playersFile, order),
                                order |-> order])
  /\ UNCHANGED <<cacheFile, refreshInFlight, lastResponse>>
  /\ UNCHANGED <<fnVars, rtVars, scVars, pfVars>>

\* The store reorder saves: every server's profiles in the new order.
ReorderProfiles(store, order) ==
  [name \in DOMAIN store |->
     Spread(store[name], [profiles |-> Reordered(store[name].profiles, order)])]

\* POST /api/players/reorder from the end of hydratePlayers to the response.
ReorderHydrated ==
  \E q \in Pending, net \in BOOLEAN :
    /\ q.kind = "reorder" /\ q.pc = "hydrate"
    /\ \E h \in {hydratePlayers(q.players, net)} :
         playersFile' = IF h.changed THEN h.players ELSE playersFile
    /\ cacheFile' = ReorderProfiles(cacheFile, q.order)
    /\ lastResponse' = [kind |-> "reorder", status |-> 200, removed |-> NoCache,
                        order |-> q.order]
    /\ requests' = Finish(q)
    /\ UNCHANGED <<refreshInFlight, received>>
    /\ UNCHANGED <<fnVars, rtVars, scVars, pfVars>>

ServerNext ==
  \/ RefreshArrive \/ RefreshHydrated \/ RefreshScraped
  \/ DataArrive \/ DataHydrated \/ DataScraped
  \/ AddArrive \/ AddNormalized \/ AddScraped \/ AddResponded
  \/ DeletePlayer
  \/ PutArrive \/ PutHydrated
  \/ ReorderArrive \/ ReorderHydrated

ServerIdle ==
  /\ playersFile = <<>> /\ cacheFile = EmptyObj
  /\ refreshInFlight = FALSE /\ requests = EmptyBag
  /\ received = 0 /\ lastResponse = NoResponse

(***************************************************************************)
(* Column mapper (moose_scraper.js, mapTableColumns).  A text is a         *)
(* sequence of tokens: words and single whitespace characters.  The        *)
(* patterns are those of COLUMN_PATTERNS and RESOURCE_COLUMN_PATTERNS,     *)
(* read over tokens: every word of the texts below is a whole token.       *)
(***************************************************************************)
MaxHeaders == 3

WS == " "

\* String.prototype.toLowerCase on the words of the header texts (the /i flag).
Lower(token) ==
  CASE token \in {"KDR", "kdr"} -> "kdr"
    [] token = "Name" -> "name"
    [] token = "PvP" -> "pvp"
    [] token = "Kills" -> "kills"
    [] token = "Headshots" -> "headshots"
    [] token = "Headshot" -> "headshot"
    [] token = "Sufur" -> "sufur"
    [] token = "Sulfur" -> "sulfur"
    [] token = "Ore" -> "ore"
    [] OTHER -> token

RECURSIVE DropLeadingWs(_)
DropLeadingWs(text) ==
  IF text # <<>> /\ Head(text) = WS THEN DropLeadingWs(Tail(text)) ELSE text

RECURSIVE DropTrailingWs(_)
DropTrailingWs(text) ==
  IF text # <<>> /\ text[Len(text)] = WS
    THEN DropTrailingWs(SubSeq(text, 1, Len(text) - 1)) ELSE text

\* String.prototype.trim
Trim(text) == DropTrailingWs(DropLeadingWs(text))

\* s.replace(/\s+/g, ' '): every run of whitespace becomes one space.
RECURSIVE CollapseWs(_)
CollapseWs(text) ==
  IF Len(text) < 2 THEN text
  ELSE IF text[1] = WS /\ text[2] = WS THEN CollapseWs(Tail(text))
  ELSE <<text[1]>> \o CollapseWs(Tail(text))

\* norm = (s) => s.replace(/\s+/g, ' ').trim()
norm(text) == Trim(CollapseWs(text))

\* The position after the tokens of text that, from position i on, are the
\* words k.. of the pattern with any whitespace between two words (\s*);
\* 0 when they are not.
RECURSIVE MatchAt(_, _, _, _)
MatchAt(words, text, i, k) ==
  IF k > Len(words) THEN i
  ELSE IF i > Len(text) THEN 0
  ELSE IF k > 1 /\ text[i] = WS THEN MatchAt(words, text, i + 1, k)
  ELSE IF Lower(text[i]) \in words[k] THEN MatchAt(words, text, i + 1, k + 1)
  ELSE 0

\* re.test(text) for a pattern with the i flag: anchored patterns (^...$)
\* span the whole text, the others match anywhere in it.
ReTest(re, text) ==
  IF re.anchored THEN MatchAt(re.words, text, 1, 1) = Len(text) + 1
  ELSE \E i \in 1..Len(text) : MatchAt(re.words, text, i, 1) > 0

ReKdr == [anchored |-> TRUE, words |-> <<{"kdr"}>>]
RePvpKills == [anchored |-> FALSE, words |-> <<{"pvp"}, {"kills"}>>]
ReHeadshots == [anchored |-> FALSE, words |-> <<{"headshot", "headshots"}>>]
ReHeadshotPct == [anchored |-> FALSE, words |-> <<{"headshot", "hs"}, {"%"}>>]
ReSulfurOre == [anchored |-> FALSE, words |-> <<{"sulfur"}, {"ore"}>>]
ReSufurOre == [anchored |-> FALSE, words |-> <<{"sufur"}, {"ore"}>>]

\* Object.entries of a pattern specification, in insertion order.
COLUMN_PATTERNS ==
  <<[label |-> "KDR", patterns |-> <<ReKdr>>],
    [label |-> "PvP Kills", patterns |-> <<RePvpKills>>],
    [label |-> "Headshots", patterns |-> <<ReHeadshots>>],
    [label |-> "Headshot %", patterns |-> <<ReHeadshotPct>>]>>

RESOURCE_COLUMN_PATTERNS ==
  <<[label |-> "Sulfur Ore", patterns |-> <<ReSulfurOre, ReSufurOre>>]>>

KdrOnlyPatterns == <<[label |-> "KDR", patterns |-> <<ReKdr>>]>>

NoPatterns == <<>>

\* patterns.some((re) => re.test(norm(h)))
SomeMatch(patterns, h) == \E j \in DOMAIN patterns : ReTest(patterns[j], norm(h))

\* A scan that keeps the last matching header instead of the first.
FindLastHeader(headers, patterns, i) ==
  IF \E j \in i..Len(headers) : SomeMatch(patterns, headers[j])
    THEN CHOOSE j \in i..Len(headers) :
           /\ SomeMatch(patterns, headers[j])
           /\ \A m \in i..Len(headers) : SomeMatch(patterns, headers[m]) => m <= j
    ELSE 0

\* The index, counted from 1, that Array.prototype.findIndex stops at when
\* it scans from i; 0 when it reaches the end.
RECURSIVE FindHeader(_, _, _)
FindHeader(headers, patterns, i) ==
  IF i > Len(headers) THEN 0
  ELSE IF SomeMatch(patterns, headers[i]) THEN i
  ELSE FindHeader(headers, patterns, i + 1)

\* The texts of the skip set of the header mode.
SkipLabels == {<<"player">>, <<"name">>, <<"steamid">>, <<"steam", WS, "id">>}

LowerText(text) == [i \in DOMAIN text |-> Lower(text[i])]

\* The header mode: every header that is neither empty nor in the skip
\* set, under its normalised text; a later equal label overwrites.
HeaderMetricIdx(headers) ==
  {i \in DOMAIN headers : norm(headers[i]) # <<>> /\ LowerText(norm(headers[i])) \notin SkipLabels}

MapByHeader(headers) ==
  [columnMap |-> [label \in {norm(headers[i]) : i \in HeaderMetricIdx(headers)} |->
                    (CHOOSE i \in HeaderMetricIdx(headers) :
                       /\ norm(headers[i]) = label
                       /\ \A j \in HeaderMetricIdx(headers) : norm(headers[j]) = label => j <= i) - 1],
   metrics |-> [k \in DOMAIN KeepIdx(headers, HeaderMetricIdx(headers)) |->
                  norm(KeepIdx(headers, HeaderMetricIdx(headers))[k])]]

\* The pattern mode: indexes are counted from 0 as in the code.
MapByPattern(headers, columnPatterns) ==
  [columnMap |->
     [label \in {columnPatterns[k].label : k \in
                   {k \in DOMAIN columnPatterns :
                      FindHeader(headers, columnPatterns[k].patterns, 1) > 0}} |->
        FindHeader(headers,
                   columnPatterns[CHOOSE k \in DOMAIN columnPatterns :
                                    columnPatterns[k].label = label].patterns, 1) - 1],
   metrics |-> [k \in DOMAIN columnPatterns |-> columnPatterns[k].label]]

\* mapTableColumns on a page whose th elements have the given texts;
\* columnPatterns is NoPatterns for a tab without patterns (null).
mapTableColumns(thTexts, columnPatterns) ==
  IF columnPatterns = NoPatterns
    THEN MapByHeader([i \in DOMAIN thTexts |-> Trim(thTexts[i])])
    ELSE MapByPattern([i \in DOMAIN thTexts |-> Trim(thTexts[i])], columnPatterns)

ThTextPool ==
  {<<"Name">>, <<"KDR">>, <<WS, "kdr">>, <<"KDR", WS, "avg">>,
   <<"PvP", WS, "Kills">>, <<"PvP", WS, WS, "Kills">>, <<"PvP", "Kills">>,
   <<"Headshots">>, <<"Headshot", WS, "%">>, <<"Sufur", WS, "Ore">>}

PatternsPool == {COLUMN_PATTERNS, RESOURCE_COLUMN_PATTERNS, KdrOnlyPatterns, NoPatterns}

MapInit ==
  /\ pfFn = "mapTableColumns"
  /\ pfArgs \in [thTexts : SeqsUpTo(ThTextPool, MaxHeaders), columnPatterns : PatternsPool]

\* { columnMap, metrics } = await mapTableColumns(page, tabDef.patterns)
CallMapTableColumns ==
  /\ pfFn = "mapTableColumns" /\ pfPhase = "input"
  /\ pfRet' = mapTableColumns(pfArgs.thTexts, pfArgs.columnPatterns)
  /\ pfPhase' = "returned"
  /\ UNCHANGED <<pfFn, pfArgs>>
  /\ UNCHANGED <<fnVars, rtVars, scVars, svVars>>

(***************************************************************************)
(* Row reader (moose_scraper.js, extractStatsFromRow).  Counts are         *)
(* naturals; a Headshot % is held in hundredths of a percent (2500 is      *)
(* 25.00).  A value that may be null is a sequence of at most one number.  *)
(***************************************************************************)
ROW_LABELS == <<"Shots Hit", "Headshots", "Headshot %">>

\* getTooltipNumber: the first popover text that has digits, else null.
getTooltipNumber(popVals) == IF popVals = <<>> THEN <<>> ELSE <<popVals[1]>>

\* getCol(label): cells[idx + 1] is getNumeric of the cell at idx and
\* popovers[idx] the popover texts shown while that cell is hovered.
getCol(label, columnMap, cells, popovers) ==
  IF label \notin DOMAIN columnMap
    THEN IF /\ label = "Headshot %"
            /\ "Headshots" \in DOMAIN columnMap
            /\ getTooltipNumber(popovers[columnMap["Headshots"]]) # <<>>
           THEN getTooltipNumber(popovers[columnMap["Headshots"]])[1]
           ELSE 0
    ELSE IF label = "Headshot %" /\ getTooltipNumber(popovers[columnMap[label]]) # <<>>
           THEN getTooltipNumber(popovers[columnMap[label]])[1]
           ELSE cells[columnMap[label] + 1]

\* metricLabels && metricLabels.length ? metricLabels : Object.keys(columnMap)
LabelsOf(metricLabels, columnMap) ==
  IF metricLabels # <<>> THEN metricLabels
  ELSE KeepIdx(ROW_LABELS, {i \in DOMAIN ROW_LABELS : ROW_LABELS[i] \in DOMAIN columnMap})

\* A reader that never recomputes the percentage.
RecomputesNever(labels, stats) == FALSE

\* labels.includes('Headshot %') && stats['Shots Hit'] > 0 && stats.Headshots >= 0
\* (a label that was not read is undefined, and the comparison false).
Recomputes(labels, stats) ==
  /\ "Headshot %" \in Range(labels)
  /\ "Shots Hit" \in DOMAIN stats /\ stats["Shots Hit"] > 0
  /\ "Headshots" \in DOMAIN stats /\ stats["Headshots"] >= 0

\* Number(((headshots / shotsHit) * 100).toFixed(2)), in hundredths: the
\* nearest hundredth; when the quotient lies halfway between two hundredths
\* the binary division decides which of the two toFixed prints.
ToFixed2(headshots, shotsHit) ==
  LET q == (headshots * 10000) \div shotsHit
      r == (headshots * 10000) % shotsHit
  IN IF 2 * r < shotsHit THEN {q}
     ELSE IF 2 * r > shotsHit THEN {q + 1}
     ELSE {q, q + 1}

\* The stats read label by label, before the recomputation.
ReadStats(labels, columnMap, cells, popovers) ==
  [label \in Range(labels) |-> getCol(label, columnMap, cells, popovers)]

\* The values extractStatsFromRow can return for stats['Headshot %'].
HeadshotPct(labels, stats) ==
  IF Recomputes(labels, stats) THEN ToFixed2(stats["Headshots"], stats["Shots Hit"])
  ELSE {stats["Headshot %"]}

\* The objects extractStatsFromRow can return.
Extracted(labels, stats) ==
  IF "Headshot %" \in Range(labels)
    THEN {[stats EXCEPT !["Headshot %"] = pct] : pct \in HeadshotPct(labels, stats)}
    ELSE {stats}

extractStatsFromRow(columnMap, metricLabels, cells, popovers) ==
  Extracted(LabelsOf(metricLabels, columnMap),
            ReadStats(LabelsOf(metricLabels, columnMap), columnMap, cells, popovers))

ShotsHitPool == {0, 200, 800}
HeadshotsPool == {0, 1, 50}
PctCellPool == {0, 3333}
PopoverPool == {<<>>, <<4242>>}

\* The column maps of a table that shows some of the three columns, each at
\* its place.
RowColumnMaps ==
  {[label \in shown |-> CHOOSE i \in 0..2 : ROW_LABELS[i + 1] = label] :
     shown \in SUBSET Range(ROW_LABELS)}

MetricLabelsPool ==
  {KeepIdx(ROW_LABELS, idx) : idx \in SUBSET DOMAIN ROW_LABELS}

ExtractInit ==
  /\ pfFn = "extractStatsFromRow"
  /\ pfArgs \in [columnMap : RowColumnMaps, metricLabels : MetricLabelsPool,
                 cells : {<<s, h, p>> : s \in ShotsHitPool, h \in HeadshotsPool,
                                         p \in PctCellPool},
                 popovers : [0..2 -> PopoverPool]]

\* stats = await extractStatsFromRow(rowLocatorFn, columnMap, page, metrics)
CallExtractStats ==
  /\ pfFn = "extractStatsFromRow" /\ pfPhase = "input"
  /\ pfRet' \in extractStatsFromRow(pfArgs.columnMap, pfArgs.metricLabels,
                                    pfArgs.cells, pfArgs.popovers)
  /\ pfPhase' = "returned"
  /\ UNCHANGED <<pfFn, pfArgs>>
  /\ UNCHANGED <<fnVars, rtVars, scVars, svVars>>

(***************************************************************************)
(* Column ladder (moose_scraper.js, ensureTabReady from the first          *)
(* mapTableColumns on).  The page re-renders on its own, so each read of   *)
(* the th elements may find other texts than the read before.  The steps   *)
(* taken are kept with the column map each produced.                       *)
(***************************************************************************)
\* The text of a metric label, word by word.
LabelText(label) ==
  CASE label = "KDR" -> <<"KDR">>
    [] label = "PvP Kills" -> <<"PvP", WS, "Kills">>
    [] label = "Headshots" -> <<"Headshots">>
    [] label = "Headshot %" -> <<"Headshot", WS, "%">>
    [] label = "Sulfur Ore" -> <<"Sulfur", WS, "Ore">>

\* norm of mapColumnsByLabel: s.replace(/\s+/g, ' ').trim().toLowerCase()
NormLower(text) == LowerText(norm(text))

\* The headers whose normalised text is that of the label.
LabelIdx(headers, label) ==
  {i \in DOMAIN headers : NormLower(headers[i]) = NormLower(LabelText(label))}

\* mapColumnsByLabel: headerMap keeps the last header of equal text.
mapColumnsByLabel(thTexts, labels) ==
  IF labels = <<>> THEN [columnMap |-> EmptyObj, metrics |-> <<>>]
  ELSE [columnMap |->
          [label \in {l \in Range(labels) : LabelIdx(thTexts, l) # {}} |->
             (CHOOSE i \in LabelIdx(thTexts, label) :
                \A j \in LabelIdx(thTexts, label) : j <= i) - 1],
        metrics |-> labels]

\* Object.keys(tabDef.patterns)
PatternLabels(columnPatterns) == [k \in DOMAIN columnPatterns |-> columnPatterns[k].label]

\* A ladder that goes on to its next step whatever the step before mapped.
EnterLadderAlways(patterns, columnMap) == patterns # NoPatterns

\* tabDef.patterns && Object.keys(columnMap).length === 0
EnterLadder(patterns, columnMap) == patterns # NoPatterns /\ DOMAIN columnMap = {}

\* What the th elements can show at one read.
LadderHeaders ==
  {<<<<"Name">>>>,
   <<<<"Name">>, <<"KDR">>>>,
   <<<<"Name">>, <<"kdr", WS>>>>,
   <<<<"Sulfur", WS, WS, "ore">>, <<"PvP", WS, "Kills">>>>,
   <<<<"Name">>, <<"KDR", WS, "avg">>>>}

LadderInit ==
  /\ pfFn = "ensureTabReady"
  /\ pfArgs \in [patterns : PatternsPool, reads : [1..3 -> LadderHeaders]]

\* A step of the ladder has mapped the columns: it is recorded, and the
\* test that follows it sends the ladder on or leaves it.
LadderMapped(name, mapped, ladderNext) ==
  /\ pfRet' = Append(IF pfPhase = "input" THEN <<>> ELSE pfRet,
                     [step |-> name, columnMap |-> mapped.columnMap,
                      metrics |-> mapped.metrics])
  /\ pfPhase' = IF EnterLadder(pfArgs.patterns, mapped.columnMap) THEN ladderNext ELSE "ready"
  /\ UNCHANGED <<pfFn, pfArgs>>
  /\ UNCHANGED <<fnVars, rtVars, scVars, svVars>>

\* let { columnMap, metrics } = await mapTableColumns(page, tabDef.patterns)
LadderMap ==
  /\ pfFn = "ensureTabReady" /\ pfPhase = "input"
  /\ LadderMapped("patterns", mapTableColumns(pfArgs.reads[1], pfArgs.patterns), "reselect")

\* selectStatsTab again, the waits, and mapTableColumns once more.
LadderReselect ==
  /\ pfFn = "ensureTabReady" /\ pfPhase = "reselect"
  /\ LadderMapped("reselect", mapTableColumns(pfArgs.reads[2], pfArgs.patterns), "labels")

\* mapColumnsByLabel(page, Object.keys(tabDef.patterns)); tabCache[tabKey]
\* is set whatever it mapped.
LadderByLabel ==
  /\ pfFn = "ensureTabReady" /\ pfPhase = "labels"
  /\ LadderMapped("labels", mapColumnsByLabel(pfArgs.reads[3], PatternLabels(pfArgs.patterns)),
                  "ready")

\* A later getPlayerStats on the tab reads a row whose every cell shows 7
\* with the column map and metrics the ladder left.
LadderExtract ==
  /\ pfFn = "ensureTabReady" /\ pfPhase = "ready"
  /\ pfArgs.patterns # NoPatterns
  /\ \E stats \in extractStatsFromRow(pfRet[Len(pfRet)].columnMap, pfRet[Len(pfRet)].metrics,
                                       <<7, 7>>, [i \in 0..1 |-> <<>>]) :
       pfRet' = Append(pfRet, [step |-> "extract", stats |-> stats])
  /\ pfPhase' = "extracted"
  /\ UNCHANGED <<pfFn, pfArgs>>
  /\ UNCHANGED <<fnVars, rtVars, scVars, svVars>>

(***************************************************************************)
(* File loaders (server.js, loadPlayers, loadCache, loadCacheStore).  A    *)
(* persisted document is absent, unparseable, or the text of a JSON value; *)
(* a JSON value is its type with its content: the fields of an object,     *)
(* the items of an array.                                                  *)
(***************************************************************************)
JNull == [type |-> "null", val |-> <<>>]
JUndefined == [type |-> "undefined", val |-> <<>>]
JNumber(n) == [type |-> "number", val |-> n]
JString(str) == [type |-> "string", val |-> str]
JArray(items) == [type |-> "array", val |-> items]
JObject(fields) == [type |-> "object", val |-> fields]

\* ToBoolean of a parsed value.
Truthy(v) ==
  CASE v.type \in {"null", "undefined"} -> FALSE
    [] v.type = "number" -> v.val # 0
    [] v.type = "string" -> v.val # ""
    [] OTHER -> TRUE

\* raw.name for a raw that is not null: undefined unless raw is an object
\* with that field.
Prop(raw, name) ==
  IF raw.type = "object" /\ name \in DOMAIN raw.val THEN raw.val[name] ELSE JUndefined

\* normalizeServerName of a parsed value.
normalizeServerName(serverName) ==
  IF serverName.type = "string" /\ serverName.val \in Range(ALLOWED_SERVERS)
    THEN serverName.val ELSE SERVER_NAME

\* try { return JSON.parse(fs.readFileSync(PLAYERS_FILE)) } catch { return [] }
loadPlayers(doc) == IF doc.state = "json" THEN doc.value ELSE JArray(<<>>)

\* try { return JSON.parse(fs.readFileSync(CACHE_FILE)) } catch { return null }
loadCache(doc) == IF doc.state = "json" THEN doc.value ELSE JNull

EmptyStore == JObject([servers |-> JObject(EmptyObj)])

\* loadCacheStore from its second line on.
StoreOf(raw) ==
  IF ~Truthy(raw) THEN EmptyStore
  ELSE IF Truthy(Prop(raw, "servers")) THEN raw
  ELSE IF Truthy(Prop(raw, "serverName"))
    THEN JObject([servers |->
           JObject([k \in {normalizeServerName(Prop(raw, "serverName"))} |-> raw])])
  ELSE EmptyStore

loadCacheStore(doc) == StoreOf(loadCache(doc))

LegacyCache == JObject([serverName |-> JString(SERVER_NAME), profiles |-> JArray(<<>>)])

\* The values a persisted document can be the text of.
JsonPool ==
  {JNull, JNumber(0), JNumber(7), JString(""), JString("oops"),
   JArray(<<>>), JArray(<<JObject([steamId |-> JString(IdA)])>>),
   JObject(EmptyObj), LegacyCache,
   JObject([servers |-> JObject(EmptyObj)]),
   JObject([servers |-> JObject([k \in {SERVER_NAME} |-> LegacyCache])]),
   JObject([servers |-> JNull]),
   JObject([servers |-> JNull, serverName |-> JString("US Biweekly (Premium)")]),
   JObject([servers |-> JString("oops")]),
   JObject([servers |-> JNumber(7)]),
   JObject([servers |-> JArray(<<>>)])}

DocumentPool ==
  {[state |-> "absent", value |-> JNull], [state |-> "unparseable", value |-> JNull]}
    \cup {[state |-> "json", value |-> v] : v \in JsonPool}

LoadInit ==
  /\ pfFn \in {"loadPlayers", "loadCacheStore"}
  /\ pfArgs \in [doc : DocumentPool]

\* const players = loadPlayers() / const store = loadCacheStore(), as every
\* handler begins.
CallLoad ==
  /\ pfFn \in {"loadPlayers", "loadCacheStore"} /\ pfPhase = "input"
  /\ pfRet' = IF pfFn = "loadPlayers" THEN loadPlayers(pfArgs.doc)
              ELSE loadCacheStore(pfArgs.doc)
  /\ pfPhase' = "returned"
  /\ UNCHANGED <<pfFn, pfArgs>>
  /\ UNCHANGED <<fnVars, rtVars, scVars, svVars>>

PureInit ==
  /\ pfPhase = "input"
  /\ pfRet = NoCache
  /\ (MapInit \/ ExtractInit \/ LoadInit \/ LadderInit)

PureNext ==
  \/ CallMapTableColumns
  \/ CallExtractStats
  \/ CallLoad
  \/ LadderMap \/ LadderReselect \/ LadderByLabel \/ LadderExtract

PureIdle ==
  /\ pfFn = "none" /\ pfPhase = "idle" /\ pfArgs = NoCache /\ pfRet = NoCache

(***************************************************************************)
(* Specifications.                                                         *)
(***************************************************************************)
InitCache == FnInit /\ RetryIdle /\ ScrapeIdle /\ ServerIdle /\ PureIdle

SpecCache == InitCache /\ [][FnNext]_vars

InitRetry == RetryInit /\ FnIdle /\ ScrapeIdle /\ ServerIdle /\ PureIdle

SpecRetry == InitRetry /\ [][RetryNext]_vars

InitScrape == ScrapeInit /\ FnIdle /\ RetryIdle /\ ServerIdle /\ PureIdle

SpecScrape == InitScrape /\ [][ScrapeNext]_vars

InitServer == ServerInit /\ FnIdle /\ RetryIdle /\ ScrapeIdle /\ PureIdle

SpecServer == InitServer /\ [][ServerNext]_vars

\* Every step of a pass is an await with a timeout, or code between two
\* awaits: it is taken once it can be.
SpecScrapeLive == InitScrape /\ [][ScrapeNext]_vars /\ WF_vars(ScrapeNext)

\* The server under refresh and delete requests alone.
RefreshDeleteNext == RefreshArrive \/ RefreshHydrated \/ RefreshScraped \/ DeletePlayer

SpecRefreshDelete == InitServer /\ [][RefreshDeleteNext]_vars

\* A handler at the end of an await that has settled is resumed: the
\* hydration of the roster settles (its fetches are wrapped in try/catch),
\* and so does a scrape that is not stalled.
SpecRefreshLive ==
  InitServer /\ [][RefreshDeleteNext]_vars
    /\ WF_vars(RefreshHydrated) /\ WF_vars(RefreshScraped)

\* The server with the roster at the player limit or one below it, under
\* the requests that edit the roster.
RosterInit ==
  /\ playersFile \in {FullRoster, SubSeq(FullRoster, 1, MAX_PLAYERS - 1)}
  /\ cacheFile = EmptyObj
  /\ refreshInFlight = FALSE
  /\ requests = EmptyBag
  /\ received = 0
  /\ lastResponse = NoResponse

RosterNext ==
  \/ AddArrive \/ AddNormalized \/ AddScraped \/ AddResponded
  \/ DeletePlayer
  \/ PutArrive \/ PutHydrated
  \/ ReorderArrive \/ ReorderHydrated

InitRoster == RosterInit /\ FnIdle /\ RetryIdle /\ ScrapeIdle /\ PureIdle

SpecRoster == InitRoster /\ [][RosterNext]_vars

InitStats == StatsInit /\ EnvelopeIdle /\ FnIdle /\ ScrapeIdle /\ ServerIdle /\ PureIdle

SpecStats == InitStats /\ [][StatsNext]_vars

InitPure == PureInit /\ FnIdle /\ RetryIdle /\ ScrapeIdle /\ ServerIdle

SpecPure == InitPure /\ [][PureNext]_vars

(***************************************************************************)
(* Properties of the cache functions.                                      *)
(***************************************************************************)

\* Two records name the same player: equal steamId or equal steamUrl.
IdentityEq(a, b) ==
  \/ Get(a, "steamId") # NULL /\ Get(a, "steamId") = Get(b, "steamId")
  \/ Get(a, "steamUrl") # NULL /\ Get(a, "steamUrl") = Get(b, "steamUrl")

Merged == fnPhase \in {"merged", "remerged"}

\* The cache profiles that no profile of the result matches.
UnmatchedCacheIdx ==
  {i \in DOMAIN argCache.profiles :
     \A j \in DOMAIN argResult.profiles : ~IdentityEq(argResult.profiles[j], argCache.profiles[i])}

\* The cache profiles that the result profile j matches.
MatchedBy(j) ==
  {i \in DOMAIN argCache.profiles : IdentityEq(argResult.profiles[j], argCache.profiles[i])}

\* C1: a cache profile that no result profile matches by steamId or steamUrl
\* is in the merged profiles with every field unchanged; it keeps its index,
\* so the relative order of such profiles is the original one.
C1_UnmatchedProfilesKept ==
  Merged =>
    \A i \in UnmatchedCacheIdx :
      /\ i <= Len(ret.profiles)
      /\ ret.profiles[i] = argCache.profiles[i]

C1_Witness ==
  /\ fnPhase = "merged"
  /\ Len(argCache.profiles) = 2
  /\ UnmatchedCacheIdx = {2}
  /\ ret.profiles[1] # argCache.profiles[1]
  /\ Len(ret.profiles) = 3

\* C2: merging the same result a second time changes nothing: profiles,
\* tabs, missing, serverName and serverInfo of merge(merge(C,R),R) are those
\* of merge(C,R).
C2_MergeIdempotent ==
  fnPhase = "remerged" => ret2 = ret

\* The result profile j has its values in the merged profile at index i.
HasValuesOf(i, j) ==
  /\ i <= Len(ret.profiles)
  /\ \A k \in DOMAIN argResult.profiles[j] :
       Get(ret.profiles[i], k) = argResult.profiles[j][k]

\* No profile appended behind the cache's profiles names the player of the
\* result profile j.
NotAppended(j) ==
  \A k \in DOMAIN ret.profiles :
    k > Len(argCache.profiles) => ~IdentityEq(argResult.profiles[j], ret.profiles[k])

\* C3 as stated: every result profile that matches a cache profile has its
\* values in that profile after the merge, and nothing is appended for it.
C3_MatchedTakesResultValues ==
  Merged =>
    \A j \in DOMAIN argResult.profiles :
      MatchedBy(j) # {} =>
        /\ \E i \in MatchedBy(j) : HasValuesOf(i, j)
        /\ NotAppended(j)

\* No other profile of the result names the player of profile j or of a
\* cache profile that j matches.
SoleWriter(j) ==
  \A j2 \in (DOMAIN argResult.profiles) \ {j} :
    /\ ~IdentityEq(argResult.profiles[j2], argResult.profiles[j])
    /\ ~IdentityEq(argResult.profiles[j], argResult.profiles[j2])
    /\ \A i \in MatchedBy(j) : ~IdentityEq(argResult.profiles[j2], argCache.profiles[i])

\* C3 amended: a result profile that matches a cache profile, and is the only
\* profile of the result that names that player or a cache profile it
\* matches, has its values in the first cache profile it matches, and
\* nothing is appended for it.
C3_SoleMatchTakesResultValues ==
  Merged =>
    \A j \in DOMAIN argResult.profiles :
      (MatchedBy(j) # {} /\ SoleWriter(j)) =>
        /\ HasValuesOf(CHOOSE i \in MatchedBy(j) : \A i2 \in MatchedBy(j) : i <= i2, j)
        /\ NotAppended(j)

C3_Witness ==
  /\ fnPhase = "merged"
  /\ Len(argResult.profiles) = 2
  /\ Len(argCache.profiles) = 2
  /\ MatchedBy(1) = {1, 2}
  /\ SoleWriter(1)
  /\ ret.profiles[1].displayName = "scraped"
  /\ ret.profiles[1].color = "#111111"
  /\ Len(ret.profiles) = 3

\* C4: every tab of the cache is still there after the merge; in each tab a
\* label the result does not have in that tab keeps its entry unchanged, a
\* label the result has holds the result's entry, and no other label appears.
C4_UnrelatedStatsKept ==
  Merged =>
    /\ DOMAIN argCache.tabs \subseteq DOMAIN ret.tabs
    /\ \A t \in DOMAIN argCache.tabs :
         LET old == argCache.tabs[t].stats
             new == IF t \in DOMAIN argResult.tabs THEN argResult.tabs[t].stats ELSE EmptyObj
             now == ret.tabs[t].stats
         IN /\ DOMAIN now = (DOMAIN old) \cup (DOMAIN new)
            /\ \A l \in DOMAIN now : now[l] = IF l \in DOMAIN new THEN new[l] ELSE old[l]
    /\ \A t \in (DOMAIN argCache.tabs) \ (DOMAIN argResult.tabs) :
         ret.tabs[t] = argCache.tabs[t]

C4_Witness ==
  /\ fnPhase = "merged"
  /\ fn = "mergeTabs"
  /\ "pve" \in (DOMAIN argCache.tabs) \ (DOMAIN argResult.tabs)
  /\ "pvp" \in (DOMAIN argCache.tabs) \cap (DOMAIN argResult.tabs)
  /\ DOMAIN argCache.tabs["pvp"].stats = {"x", "y"}
  /\ DOMAIN argResult.tabs["pvp"].stats = {"y"}
  /\ ret.tabs["pvp"].stats = [x |-> "old", y |-> "new"]

\* C10: every roster player has a profile in the response built from a
\* non-null cache.
C10_EveryRosterPlayerInResponse ==
  fnPhase = "built" =>
    \A i \in DOMAIN argPlayers :
      \E k \in DOMAIN ret.profiles : IdentityEq(argPlayers[i], ret.profiles[k])

(***************************************************************************)
(* Properties of the retry envelope.                                       *)
(***************************************************************************)

Transient(outcome) == outcome \in {ErrDetached, ErrTargetClosed}

\* C7: with the default 3 attempts, transient errors on attempts 1 and 2 and
\* success on attempt 3 return the action's value; transient errors on
\* attempts 1 to 3 throw the last error; the action is never invoked a
\* fourth time.
C7_ThreeAttempts ==
  rtAttempts = DEFAULT_ATTEMPTS =>
    /\ rtCalls <= 3
    /\ rtCalls = Len(rtOutcomes)
    /\ (/\ Len(rtOutcomes) = 3
        /\ Transient(rtOutcomes[1]) /\ Transient(rtOutcomes[2])
        /\ rtOutcomes[3] = "ok")
         => (rtState = "returned" /\ rtReturn = "value" /\ rtError = NULL)
    /\ (/\ Len(rtOutcomes) = 3
        /\ \A i \in 1..3 : Transient(rtOutcomes[i]))
         => (rtState = "thrown" /\ rtError = rtOutcomes[3] /\ rtReturn = NULL)

C7_Witness ==
  /\ rtAttempts = DEFAULT_ATTEMPTS
  /\ rtOutcomes = <<ErrDetached, ErrTargetClosed, "ok">>
  /\ rtState = "returned"
  /\ rtWaits = <<250, 500>>

(***************************************************************************)
(* Properties of the tab orchestrator.                                     *)
(***************************************************************************)

\* The profiles whose getPlayerStats call failed in the pvp turn of this pass.
FailedOnPvp ==
  {scLog[k].player : k \in {n \in DOMAIN scLog : scLog[n].tab = "pvp" /\ ~scLog[n].ok}}

\* The missing list names profile i.
ListedMissing(list, i) ==
  \E m \in DOMAIN list :
    /\ list[m].steamId = scProfiles[i].steamId
    /\ list[m].label = LabelOf(scProfiles[i])

\* No tab but pvp holds stats read from the row of profile i.
NoStatsOutsidePvp(tabs, i) ==
  \A t \in (DOMAIN tabs) \ {"pvp"} :
    \A l \in DOMAIN tabs[t].stats : tabs[t].stats[l].row # i

\* C6: in a pass that scrapes pvp, under either strategy, a player whose
\* lookup failed on pvp is in the missing list and no other tab holds stats
\* read for that player, during the pass and in its result.
C6_MissingOnPvpSkipped ==
  ScrapePvp(scTabsOption) =>
    \A i \in FailedOnPvp :
      /\ ListedMissing(scMissing, i)
      /\ NoStatsOutsidePvp(scTabs, i)
      /\ scPhase = "done" =>
           /\ ListedMissing(scResult.missing, i)
           /\ NoStatsOutsidePvp(scResult.tabs, i)

C6_Witness ==
  /\ scPhase = "done"
  /\ scPrev # NoCache
  /\ scPrev.strategy = "perTab" /\ scStrategy = "perPlayer"
  /\ Len(scProfiles) = 2
  /\ FailedOnPvp = {1}
  /\ 1 \in pgRows["pve"]
  /\ DOMAIN scResult.tabs = Range(TAB_KEYS)
  /\ DOMAIN scResult.tabs["pve"].stats # {}
  /\ Len(scResult.missing) = 1

StatsOfTab(result, t) ==
  IF t \in DOMAIN result.tabs THEN result.tabs[t].stats ELSE EmptyObj

\* C9: for the same players, tabs and page, a perTab pass and a perPlayer
\* pass return the same per-tab stats, the same missing entries and the same
\* missing flags.
C9_StrategiesAgree ==
  (scPhase = "done" /\ scPrev # NoCache /\ scPrev.strategy # scResult.strategy) =>
    /\ \A t \in Range(TAB_KEYS) : StatsOfTab(scPrev, t) = StatsOfTab(scResult, t)
    /\ Range(scPrev.missing) = Range(scResult.missing)
    /\ \A i \in DOMAIN scProfiles : scPrev.profiles[i].missing = scResult.profiles[i].missing

(***************************************************************************)
(* Properties of the request handlers.                                     *)
(***************************************************************************)

\* A stats entry is of the player: it was read from that player's row.
EntryOf(entry, player) ==
  \/ Get(player, "steamId") # NULL /\ entry.row = Get(player, "steamId")
  \/ Get(player, "steamUrl") # NULL /\ entry.url = Get(player, "steamUrl")

\* This step is a DELETE /api/players that removed a player.
Removal == received' = received + 1 /\ lastResponse'.kind = "delete" /\ requests' = requests
             /\ ~IsNoCache(lastResponse'.removed)

\* In every tab of every server, no entry of the player is left and the
\* entries of the others are as they were.
PurgedOnly(player, before, after) ==
  \A name \in DOMAIN after : \A tabKey \in DOMAIN after[name].tabs :
    LET was == before[name].tabs[tabKey].stats
        now == after[name].tabs[tabKey].stats
    IN /\ \A k \in DOMAIN now : ~EntryOf(now[k], player)
       /\ \A k \in DOMAIN was :
            ~EntryOf(was[k], player) => k \in DOMAIN now /\ now[k] = was[k]

\* C5: after DELETE removes a player P, no tab of any server's cache holds a
\* stats entry of P, and every entry of another player is as it was before
\* the removal.
C5_RemovalPurgesOnlyThatPlayer ==
  [][Removal => PurgedOnly(lastResponse'.removed, cacheFile, cacheFile')]_vars

\* C8: at most one scrapePlayers invocation is in progress in the process at
\* any moment, whichever handler started it.
C8_OneScrapeAtATime == Scraping <= 1

\* This step is the response of a PUT /api/players/:id that renamed a player.
Renamed == lastResponse'.kind = "put" /\ lastResponse'.status = 200 /\ requests' # requests

\* Every tab in which the cache held an entry of the player has one in the
\* response body.
StatsReturnedFor(player, cache, body) ==
  \A tabKey \in DOMAIN cache.tabs :
    (\E k \in DOMAIN cache.tabs[tabKey].stats : EntryOf(cache.tabs[tabKey].stats[k], player))
      => /\ ~IsNoCache(body)
         /\ tabKey \in DOMAIN body.tabs
         /\ \E k \in DOMAIN body.tabs[tabKey].stats : EntryOf(body.tabs[tabKey].stats[k], player)

\* C11: after PUT /api/players/:id renames a tracked player, the response
\* rebuilt from the cache still holds, on every tab, the stats the cache had
\* collected for that player.
C11_RenameKeepsStats ==
  [][(Renamed /\ lastResponse'.serverName \in DOMAIN cacheFile)
       => StatsReturnedFor(lastResponse'.player, cacheFile[lastResponse'.serverName],
                           lastResponse'.body)]_vars

\* C12: mergePlayerStats and buildResponseFromCache leave their arguments as
\* they were: after the call the cache object passed in, with its tabs,
\* profiles and missing, equals what it was before the call.
C12_ArgumentsUnmodified == fnPhase \in {"merged", "built"} => cacheObj = argCache

(***************************************************************************)
(* Properties of the table functions.                                      *)
(***************************************************************************)

\* The th elements whose whitespace-normalised text one of the patterns matches.
MatchingTh(thTexts, patterns) ==
  {i \in DOMAIN thTexts : \E j \in DOMAIN patterns : ReTest(patterns[j], norm(thTexts[i]))}

MappedInPatternMode ==
  pfFn = "mapTableColumns" /\ pfPhase = "returned" /\ pfArgs.columnPatterns # NoPatterns

\* C13: in pattern mode mapTableColumns maps each metric of the specification
\* to the index (from 0) of the first header whose whitespace-normalised text
\* matches one of the metric's patterns, and leaves a metric without a
\* matching header out of columnMap.
C13_FirstMatchingHeader ==
  MappedInPatternMode =>
    \A k \in DOMAIN pfArgs.columnPatterns :
      LET label == pfArgs.columnPatterns[k].label
          matching == MatchingTh(pfArgs.thTexts, pfArgs.columnPatterns[k].patterns)
      IN IF matching = {}
           THEN label \notin DOMAIN pfRet.columnMap
           ELSE /\ label \in DOMAIN pfRet.columnMap
                /\ pfRet.columnMap[label] + 1 \in matching
                /\ \A i \in matching : pfRet.columnMap[label] + 1 <= i

\* Headers [Name, KDR, PvP Kills] with {KDR: [/^kdr$/i]} give {KDR: 1}.
C13_Witness ==
  /\ MappedInPatternMode
  /\ pfArgs.thTexts = <<<<"Name">>, <<"KDR">>, <<"PvP", WS, "Kills">>>>
  /\ pfArgs.columnPatterns = KdrOnlyPatterns
  /\ DOMAIN pfRet.columnMap = {"KDR"}
  /\ pfRet.columnMap["KDR"] = 1

ExtractedPct ==
  /\ pfFn = "extractStatsFromRow" /\ pfPhase = "returned"
  /\ "Headshot %" \in DOMAIN pfRet

\* The value read for Headshot % before any recomputation: the tooltip, the
\* cell, or 0.
PriorPct ==
  getCol("Headshot %", pfArgs.columnMap, pfArgs.cells, pfArgs.popovers)

\* C14: when Headshot % is requested, Shots Hit was read greater than 0 and
\* Headshots was read, the returned Headshot % is Headshots / Shots Hit * 100
\* rounded to 2 decimals (a nearest hundredth), whatever the tooltip or cell
\* gave; when Shots Hit is 0 or was not read, the value read before is
\* returned unchanged.
C14_HeadshotPctRecomputed ==
  ExtractedPct =>
    IF "Shots Hit" \in DOMAIN pfRet /\ pfRet["Shots Hit"] > 0
      THEN "Headshots" \in DOMAIN pfRet =>
             LET diff == pfRet["Headshot %"] * pfRet["Shots Hit"] - pfRet["Headshots"] * 10000
             IN 2 * diff <= pfRet["Shots Hit"] /\ 2 * (0 - diff) <= pfRet["Shots Hit"]
      ELSE pfRet["Headshot %"] = PriorPct

\* Shots Hit 200 and Headshots 50 give 25.00 although the tooltip showed
\* another value.
C14_Witness ==
  /\ ExtractedPct
  /\ "Shots Hit" \in DOMAIN pfRet /\ pfRet["Shots Hit"] = 200
  /\ "Headshots" \in DOMAIN pfRet /\ pfRet["Headshots"] = 50
  /\ PriorPct = 4242
  /\ pfRet["Headshot %"] = 2500

\* The cache profiles whose steamId is that of the only profile of the result.
MatchedById ==
  {i \in DOMAIN argCache.profiles :
     /\ Get(argResult.profiles[1], "steamId") # NULL
     /\ argCache.profiles[i].steamId = Get(argResult.profiles[1], "steamId")}

\* The cache profiles that share nothing but the display name with it.
SameNameOnly ==
  {i \in DOMAIN argCache.profiles :
     /\ argCache.profiles[i].displayName = argResult.profiles[1].displayName
     /\ ~IdentityEq(argResult.profiles[1], argCache.profiles[i])}

\* C15: an incoming profile that equals one cached profile by steamId and
\* another by steamUrl overwrites the one matched by steamId, whatever their
\* order, and leaves the other as it was; an incoming profile that shares
\* only its display name with a cached profile is appended, not merged.
C15_SteamIdMatchFirst ==
  (fn = "mergeProfiles" /\ fnPhase = "merged" /\ Len(argResult.profiles) = 1) =>
     /\ (MatchedById # {} /\ MatchedBy(1) \ MatchedById # {}) =>
           /\ \E i \in MatchedById : HasValuesOf(i, 1)
           /\ \A i \in MatchedBy(1) \ MatchedById : ret.profiles[i] = argCache.profiles[i]
     /\ (SameNameOnly # {} /\ MatchedBy(1) = {}) =>
           /\ Len(ret.profiles) = Len(argCache.profiles) + 1
           /\ ret.profiles[Len(ret.profiles)] = argResult.profiles[1]
           /\ \A i \in DOMAIN argCache.profiles : ret.profiles[i] = argCache.profiles[i]

\* This step is the cache write and response of POST /api/refresh or of the
\* GET /api/data scrape.
ScrapeStored ==
  /\ lastResponse'.status = 200
  /\ \E q \in Pending :
       q.kind \in {"refresh", "data"} /\ q.pc = "scrape" /\ requests' = Finish(q)

\* Every server cache is still there, and for every player of the roster
\* each tab that held a stats entry of the player holds one, and a profile
\* of the player is kept.
StillHeld(before, after, roster) ==
  \A name \in DOMAIN before :
    /\ name \in DOMAIN after
    /\ \A i \in DOMAIN roster :
         /\ \A tabKey \in DOMAIN before[name].tabs :
              (\E k \in DOMAIN before[name].tabs[tabKey].stats :
                 EntryOf(before[name].tabs[tabKey].stats[k], roster[i]))
                => /\ tabKey \in DOMAIN after[name].tabs
                   /\ \E k \in DOMAIN after[name].tabs[tabKey].stats :
                        EntryOf(after[name].tabs[tabKey].stats[k], roster[i])
         /\ (\E k \in DOMAIN before[name].profiles :
                IdentityEq(roster[i], before[name].profiles[k]))
               => \E k \in DOMAIN after[name].profiles :
                    IdentityEq(roster[i], after[name].profiles[k])

\* C16: the scrape result of POST /api/refresh or of the GET /api/data scrape
\* is folded into the cache: what the cache held for players still tracked
\* is still in the cache after the handler's write.
C16_ScrapeFoldedIntoCache ==
  [][ScrapeStored => StillHeld(cacheFile, cacheFile', playersFile')]_vars

\* C20: an error that is not transient is rethrown by the invocation that
\* raised it: no further invocation, no log message and no backoff wait
\* follow it; raised by the first invocation, it leaves one invocation, no
\* log and no wait.
C20_NonTransientRethrownAtOnce ==
  (/\ rtOutcomes # <<>>
   /\ rtOutcomes[Len(rtOutcomes)] # "ok"
   /\ ~Transient(rtOutcomes[Len(rtOutcomes)]))
    => /\ rtState = "thrown"
       /\ rtError = rtOutcomes[Len(rtOutcomes)]
       /\ rtCalls = Len(rtOutcomes)
       /\ rtLogs = Len(rtOutcomes) - 1
       /\ Len(rtWaits) = Len(rtOutcomes) - 1

C20_Witness ==
  /\ rtAttempts = DEFAULT_ATTEMPTS
  /\ rtOutcomes = <<ErrTimeout>>
  /\ rtState = "thrown" /\ rtError = ErrTimeout
  /\ rtCalls = 1 /\ rtLogs = 0 /\ rtWaits = <<>>

(***************************************************************************)
(* Properties of the file loaders.                                         *)
(***************************************************************************)

\* A store: an object whose servers field is a mapping.
IsStore(v) ==
  v.type = "object" /\ "servers" \in DOMAIN v.val /\ v.val["servers"].type = "object"

IsEmptyStore(v) == IsStore(v) /\ DOMAIN v.val["servers"].val = {}

IsEmptyRoster(v) == v.type = "array" /\ v.val = <<>>

\* The document is the text of a store, or of a cache written before the
\* stores (an object with a serverName).
HoldsCache(doc) ==
  /\ doc.state = "json"
  /\ \/ IsStore(doc.value)
     \/ doc.value.type = "object" /\ Truthy(Prop(doc.value, "serverName"))

\* C18: loadPlayers returns a roster and loadCacheStore a store whatever the
\* persisted document is; an absent, unparseable or wrongly shaped document
\* gives the empty roster [] and the empty store {servers: {}}.
C18_LoadersYieldWellShaped ==
  pfPhase = "returned" =>
    /\ pfFn = "loadPlayers" =>
         /\ pfRet.type = "array"
         /\ (pfArgs.doc.state # "json" \/ pfArgs.doc.value.type # "array")
              => IsEmptyRoster(pfRet)
    /\ pfFn = "loadCacheStore" =>
         /\ IsStore(pfRet)
         /\ ~HoldsCache(pfArgs.doc) => IsEmptyStore(pfRet)

C19_EveryPassTerminates == (scPhase = "profiles") ~> (scPhase \in {"done", "thrown"})

\* Every invocation of the scroll action so far failed with a transient
\* error.
ScrollKeepsFailing ==
  \A k \in 1..Len(gpScrolls) : isRetryableDetachError(gpScrolls[k])

\* C21: within one getPlayerStats call, scrolling the player's row into
\* view is attempted at most 3 times in total when it keeps failing with a
\* transient error.
C21_ScrollAttemptedThrice ==
  ScrollKeepsFailing => Len(gpScrolls) <= DEFAULT_ATTEMPTS

\* The metrics list the cache's tab had before the merge (none: empty).
CachedMetrics(tabKey) ==
  IF tabKey \in DOMAIN argCache.tabs /\ "metrics" \in DOMAIN argCache.tabs[tabKey]
    THEN argCache.tabs[tabKey].metrics ELSE <<>>

\* C22: mergePlayerStats takes a tab's metrics list from the incoming
\* result only when the cache's tab had none; a non-empty list of the
\* cache's tab is kept, whatever list the result carries.
C22_MetricsOnlyWhenCacheHadNone ==
  (fn = "mergeTabs" /\ fnPhase = "merged") =>
    \A tabKey \in DOMAIN argResult.tabs :
      ret.tabs[tabKey].metrics =
        IF CachedMetrics(tabKey) = <<>> THEN argResult.tabs[tabKey].metrics
        ELSE CachedMetrics(tabKey)

\* C23: the missing list of mergePlayerStats(C, R) is C's missing entries
\* followed by every entry of R.missing.
C23_MissingAppended ==
  (fn = "mergeTabs" /\ fnPhase = "merged") =>
    ret.missing = argCache.missing \o argResult.missing

\* The roster entries a step took out of the roster file.
RemovedEntries == Range(playersFile) \ Range(playersFile')

\* item (a cache profile or a missing entry) has the steamId or the steamUrl
\* of one of the roster entries.
OfRemoved(item, entries) ==
  \E r \in entries :
    \/ Get(item, "steamId") # NULL /\ Get(item, "steamId") = Get(r, "steamId")
    \/ Get(item, "steamUrl") # NULL /\ Get(item, "steamUrl") = Get(r, "steamUrl")

\* list without the items of the removed entries, the others in their order.
WithoutRemoved(list, entries) ==
  KeepIdx(list, {i \in DOMAIN list : ~OfRemoved(list[i], entries)})

\* C24: when DELETE removes one or more roster entries, every server cache
\* saved has lost exactly the profiles and missing entries that bear the
\* steamId or steamUrl of a removed entry; a DELETE that matches no entry
\* leaves the roster file and the cache file as they were.
C24_DeletePurgesEveryRemoved ==
  [][(received' = received + 1 /\ lastResponse'.kind = "delete" /\ requests' = requests) =>
       IF RemovedEntries = {}
         THEN playersFile' = playersFile /\ cacheFile' = cacheFile
         ELSE \A name \in DOMAIN cacheFile' :
                /\ cacheFile'[name].profiles =
                     WithoutRemoved(cacheFile[name].profiles, RemovedEntries)
                /\ cacheFile'[name].missing =
                     WithoutRemoved(cacheFile[name].missing, RemovedEntries)]_vars

\* The steps of the column ladder taken so far, without the extraction.
LadderSteps == SelectSeq(pfRet, LAMBDA e : e.step # "extract")

LadderOrder == <<"patterns", "reselect", "labels">>

\* Every column of the map is a header whose text is the label's, letter
\* case aside.
MappedByLabelEquality(columnMap, headers) ==
  \A label \in DOMAIN columnMap :
    NormLower(headers[columnMap[label] + 1]) = NormLower(LabelText(label))

\* C25: the ladder of ensureTabReady runs pattern mapping, then reselect
\* and pattern mapping, then mapping by label equality, goes on only while
\* the column map is empty and stops at the first that is not; a tab
\* without patterns takes the first mapping alone; after three empty maps
\* the tab is ready with an empty map and every metric extracted is 0.
C25_LadderStopsAtFirstMap ==
  (pfFn = "ensureTabReady" /\ pfPhase \in {"ready", "extracted"}) =>
    /\ Len(LadderSteps) \in 1..3
    /\ \A k \in DOMAIN LadderSteps :
         /\ LadderSteps[k].step = LadderOrder[k]
         /\ k < Len(LadderSteps) => DOMAIN LadderSteps[k].columnMap = {}
    /\ Len(LadderSteps) < 3 =>
         \/ pfArgs.patterns = NoPatterns
         \/ DOMAIN LadderSteps[Len(LadderSteps)].columnMap # {}
    /\ pfArgs.patterns = NoPatterns => Len(LadderSteps) = 1
    /\ Len(LadderSteps) = 3 =>
         MappedByLabelEquality(LadderSteps[3].columnMap, pfArgs.reads[3])
    /\ (pfPhase = "extracted" /\ DOMAIN LadderSteps[Len(LadderSteps)].columnMap = {}) =>
         \A label \in DOMAIN pfRet[Len(pfRet)].stats : pfRet[Len(pfRet)].stats[label] = 0

\* All three steps mapped nothing, and the row was read as zeros.
C25_Witness ==
  /\ pfFn = "ensureTabReady" /\ pfPhase = "extracted"
  /\ Len(LadderSteps) = 3
  /\ DOMAIN LadderSteps[3].columnMap = {}
  /\ DOMAIN pfRet[Len(pfRet)].stats # {}
  /\ \A label \in DOMAIN pfRet[Len(pfRet)].stats : pfRet[Len(pfRet)].stats[label] = 0

\* No tab had its columns mapped twice in the pass.
ResolvedOnce ==
  \A i, j \in DOMAIN scResolved : i # j => scResolved[i] # scResolved[j]

\* Every call of getPlayerStats was for a tab whose columns were mapped.
ExtractedWhenReady ==
  \A k \in DOMAIN scLog :
    scLog[k].tab \in Range(scResolved) /\ scLog[k].tab \in DOMAIN scTabCache

\* The stats held for a tab were read with the column map resolved for it,
\* and the tab is reported with that map and those metrics.
UsesResolvedMap ==
  /\ \A t \in DOMAIN scTabs :
       /\ scTabs[t].columnMap = scTabCache[t].columnMap
       /\ scTabs[t].metrics = scTabCache[t].metrics
       /\ \A l \in DOMAIN scTabs[t].stats :
            scTabs[t].stats[l].columns = scTabCache[t].columnMap
  /\ (scStrategy = "perTab" /\ scPhase = "loop" /\ scInner >= 1) =>
       \A l \in DOMAIN scStats :
         scStats[l].columns = scTabCache[scTabEntries[scOuter]].columnMap

\* C26: within one pass, under both strategies, a tab's columns are mapped
\* at most once and what tabCache holds for it never changes afterwards,
\* no getPlayerStats call is made on a tab before its columns are mapped,
\* and every extraction on the tab uses the columnMap and metrics resolved.
C26_ColumnMapResolvedOnce ==
  [][/\ scPhase' # "profiles" =>
          \A t \in DOMAIN scTabCache :
            t \in DOMAIN scTabCache' /\ scTabCache'[t] = scTabCache[t]
     /\ ResolvedOnce'
     /\ ExtractedWhenReady'
     /\ UsesResolvedMap']_vars

\* A perPlayer pass over two players and all tabs is done: each tab was
\* mapped once and visited for both players.
C26_Witness ==
  /\ scPhase = "done" /\ scStrategy = "perPlayer"
  /\ Len(scProfiles) = 2
  /\ Len(scResolved) = Len(TAB_KEYS)
  /\ Len(scLog) = 2 * Len(TAB_KEYS)

\* The getPlayerStats calls that failed on a tab other than pvp.
FailedOffPvp == {k \in DOMAIN scLog : scLog[k].tab # "pvp" /\ ~scLog[k].ok}

\* The tabs of the pass that come after tabKey.
LaterTabs(tabKey) ==
  {scTabEntries[n] : n \in {m \in DOMAIN scTabEntries :
     \E j \in 1..(m - 1) : scTabEntries[j] = tabKey}}

\* getPlayerStats was called for profile i on tab tabKey.
Attempted(tabKey, i) ==
  \E k \in DOMAIN scLog : scLog[k].tab = tabKey /\ scLog[k].player = i

\* No stats of tab tabKey were read from the row of profile i.
NoStatsOn(tabKey, i) ==
  /\ tabKey \in DOMAIN scTabs =>
       \A l \in DOMAIN scTabs[tabKey].stats : scTabs[tabKey].stats[l].row # i
  /\ (scPhase = "done" /\ tabKey \in DOMAIN scResult.tabs) =>
       \A l \in DOMAIN scResult.tabs[tabKey].stats : scResult.tabs[tabKey].stats[l].row # i

\* C27: a player whose extraction fails on a tab other than pvp is not
\* added to missing, has missing = false in the result, has no stats entry
\* on that tab, and once the pass has ended was attempted on every later
\* tab of the pass.
C27_OffPvpFailureOnlyLogged ==
  \A k \in FailedOffPvp :
    /\ ~ListedMissing(scMissing, scLog[k].player)
    /\ NoStatsOn(scLog[k].tab, scLog[k].player)
    /\ scPhase = "done" => ~scResult.profiles[scLog[k].player].missing
    /\ scPhase \in {"done", "thrown"} =>
         \A t \in LaterTabs(scLog[k].tab) : Attempted(t, scLog[k].player)

\* The profiles the pass before reported missing.
MissingBefore ==
  IF scPrev = NoCache THEN {}
  ELSE {i \in DOMAIN scProfiles : ListedMissing(scPrev.missing, i)}

\* C28: a player recorded missing in one scrapePlayers invocation is looked
\* up again on pvp in the next one, and within one pass no player is
\* appended to missing twice.
C28_SkipScopedToPass ==
  /\ \A a, b \in DOMAIN scMissing :
       (scMissing[a].steamId = scMissing[b].steamId /\ scMissing[a].label = scMissing[b].label)
         => a = b
  /\ (scPhase = "done" /\ ScrapePvp(scTabsOption)) =>
       \A i \in MissingBefore : Attempted("pvp", i)

\* The second pass is done; the player the first pass recorded missing was
\* looked up on pvp again and is listed once.
C28_Witness ==
  /\ scPhase = "done" /\ scPrev # NoCache
  /\ MissingBefore = {1}
  /\ Attempted("pvp", 1)
  /\ Len(scMissing) = 1

\* The two lists hold the same entries, each as many times.
IsPermutation(before, after) ==
  /\ Len(before) = Len(after)
  /\ \A e \in Range(before) \cup Range(after) :
       Cardinality({i \in DOMAIN before : before[i] = e}) =
         Cardinality({i \in DOMAIN after : after[i] = e})

\* The place of an id in the order array.
PlaceIn(order, id) == CHOOSE k \in DOMAIN order : order[k] = id /\ \A j \in 1..(k - 1) : order[j] # id

\* The entries whose id is listed come first, in the order given; the
\* others follow as they were.
ListedFirst(before, after, order) ==
  /\ \A a, b \in DOMAIN after :
       (a < b /\ IdOrUrlId(after[b]) \in Range(order)) =>
         /\ IdOrUrlId(after[a]) \in Range(order)
         /\ PlaceIn(order, IdOrUrlId(after[a])) <= PlaceIn(order, IdOrUrlId(after[b]))
  /\ KeepIdx(after, {i \in DOMAIN after : IdOrUrlId(after[i]) \notin Range(order)}) =
       KeepIdx(before, {i \in DOMAIN before : IdOrUrlId(before[i]) \notin Range(order)})

\* The reorder requests a step has received (at its await after the step).
ReorderReceived ==
  {q \in BagToSet(requests') :
     q.kind = "reorder" /\ CopiesIn(q, requests') > CopiesIn(q, requests)}

\* The reorder requests a step has answered.
ReorderAnswered ==
  {q \in BagToSet(requests) :
     q.kind = "reorder" /\ CopiesIn(q, requests') < CopiesIn(q, requests)}

\* C29: POST /api/players/reorder, for every order array, leaves the saved
\* roster and each server cache's profiles a permutation of what they
\* were, the listed ids first in the order given and the rest after as
\* they were, and leaves every tab's stats in every cache unchanged.
C29_ReorderPermutes ==
  [][/\ \A q \in ReorderReceived :
          /\ IsPermutation(playersFile, playersFile')
          /\ ListedFirst(playersFile, playersFile', q.order)
     /\ \A q \in ReorderAnswered :
          /\ DOMAIN cacheFile' = DOMAIN cacheFile
          /\ \A name \in DOMAIN cacheFile' :
               /\ IsPermutation(cacheFile[name].profiles, cacheFile'[name].profiles)
               /\ ListedFirst(cacheFile[name].profiles, cacheFile'[name].profiles, q.order)
               /\ cacheFile'[name].tabs = cacheFile[name].tabs]_vars

\* The refresh requests a step has answered with a scrape result.
RefreshWrote ==
  {q \in BagToSet(requests) :
     /\ q.kind = "refresh" /\ q.pc = "scrape"
     /\ CopiesIn(q, requests') < CopiesIn(q, requests)
     /\ lastResponse'.status = 200}

\* The profile is that of the roster entry.
ProfileOf(profile, player) ==
  \/ player.steamId # NULL /\ Get(profile, "steamId") = player.steamId
  \/ player.steamUrl # NULL /\ Get(profile, "steamUrl") = player.steamUrl

\* The roster file holds the player.
InRosterFile(profile) ==
  \E i \in DOMAIN playersFile : ProfileOf(profile, playersFile[i])

\* C30: a refresh writes the cache of the roster it loaded before its
\* awaits, one profile per player, whatever the roster file holds by then:
\* nothing orders its write after the cache write of a roster edit made
\* meanwhile.
C30_RefreshWritesItsSnapshot ==
  [][\A q \in RefreshWrote :
       /\ Len(cacheFile'[q.serverName].profiles) = Len(q.players)
       /\ \A i \in DOMAIN q.players :
            \E k \in DOMAIN cacheFile'[q.serverName].profiles :
              ProfileOf(cacheFile'[q.serverName].profiles[k], q.players[i])]_vars

\* DELETE removed a player while the refresh was at an await, and the
\* refresh then stored that player's profile and stats: the roster is below
\* the two players a refresh needs, the refresh answered last, and the
\* cache holds a profile and a stats entry of a player the roster lacks.
C30_Witness ==
  /\ received = 2 /\ requests = EmptyBag
  /\ lastResponse.kind = "refresh" /\ lastResponse.status = 200
  /\ Len(playersFile) < MIN_COMPARE_PLAYERS
  /\ \E name \in DOMAIN cacheFile :
       \E k \in DOMAIN cacheFile[name].profiles :
         /\ ~InRosterFile(cacheFile[name].profiles[k])
         /\ \E t \in DOMAIN cacheFile[name].tabs :
              \E l \in DOMAIN cacheFile[name].tabs[t].stats :
                EntryOf(cacheFile[name].tabs[t].stats[l], cacheFile[name].profiles[k])

\* The requests a step has brought from the end of scrapePlayers to a write
\* of their own server's cache (refresh, data and add keep the cache of
\* one server).
WroteOneServer ==
  {q \in BagToSet(requests) :
     /\ q.kind \in {"refresh", "data", "add"} /\ q.pc = "scrape"
     /\ CopiesIn(q, requests') < CopiesIn(q, requests)
     /\ cacheFile' # cacheFile}

\* C31: a handler that writes the cache of one server leaves the entry of
\* every other server in the store as it was: it neither deletes it nor
\* puts an older version back.
C31_OtherServersKept ==
  [][\A q \in WroteOneServer :
       \A name \in (DOMAIN cacheFile) \ {q.serverName} :
         /\ name \in DOMAIN cacheFile'
         /\ cacheFile'[name] = cacheFile[name]]_vars

\* The calls of getPlayerStats on a tab that returned stats, as places in
\* the log of the pass.
ReadsOn(tabKey) == {n \in DOMAIN scLog : scLog[n].tab = tabKey /\ scLog[n].ok}

\* The player whose stats were extracted last on the tab among those of
\* the label.
LastExtracted(tabKey, label) ==
  LET reads == {n \in ReadsOn(tabKey) : LabelOf(scProfiles[scLog[n].player]) = label}
  IN scLog[CHOOSE n \in reads : \A k \in reads : k <= n].player

\* Two profiles of the pass resolve to the same label.
SharedLabels ==
  {LabelOf(scProfiles[i]) : i \in {k \in DOMAIN scProfiles :
     \E j \in DOMAIN scProfiles : j # k /\ LabelOf(scProfiles[j]) = LabelOf(scProfiles[k])}}

\* C32: in the result of a pass, the stats of every tab hold under a label
\* the values of the player of that label extracted last on the tab, and
\* under no key the values of a player of another label: of two players
\* sharing a label, only the later one's values are kept.
C32_SharedLabelKeepsLast ==
  scPhase = "done" =>
    \A t \in DOMAIN scResult.tabs :
      \A label \in DOMAIN scResult.tabs[t].stats :
        /\ LabelOf(scProfiles[scResult.tabs[t].stats[label].row]) = label
        /\ scResult.tabs[t].stats[label].row = LastExtracted(t, label)

\* Both of two players named alike were read on pvp, and the result holds
\* the second one's values under the name.
C32_Witness ==
  /\ scPhase = "done"
  /\ "Al" \in SharedLabels
  /\ {scLog[n].player : n \in ReadsOn("pvp")} = {1, 2}
  /\ scResult.tabs["pvp"].stats["Al"].row = 2
  /\ DOMAIN scResult.tabs["pvp"].stats = {"Al"}

\* The accepted refresh requests whose scrape is in progress.
RefreshScraping == {q \in Pending : q.kind = "refresh" /\ q.pc \in {"scrape", "stalled"}}

\* C33: while the scrape of an accepted POST /api/refresh is in progress,
\* refreshInFlight is true, whatever other refresh requests were rejected
\* in the meantime.
C33_FlagHeldWhileScraping == RefreshScraping # {} => refreshInFlight

\* C34: every call of getPlayerStats that read a player's row for a tab,
\* with that tab's column map, read it while the page showed that tab.
C34_ReadsOnSelectedTab ==
  \A n \in DOMAIN scLog : scLog[n].ok => scLog[n].table = scLog[n].tab

\* Two profiles hold the same steamId, or the same steamUrl.
SharesKey(a, b, key) == Get(a, key) # NULL /\ Get(a, key) = Get(b, key)

\* No two profiles of the list share a steamId or a steamUrl.
UniqueIdentities(profiles) ==
  \A i, j \in DOMAIN profiles :
    i # j => ~SharesKey(profiles[i], profiles[j], "steamId")
             /\ ~SharesKey(profiles[i], profiles[j], "steamUrl")

\* C35: mergePlayerStats of a cache and a result in each of which no two
\* profiles share a steamId or a steamUrl returns profiles of which no two
\* share a steamId or a steamUrl.
C35_MergeKeepsIdentitiesUnique ==
  (fn = "mergeProfiles" /\ fnPhase = "merged"
     /\ UniqueIdentities(argCache.profiles) /\ UniqueIdentities(argResult.profiles)) =>
    UniqueIdentities(ret.profiles)

\* The POST /api/players requests a step has accepted (at their first
\* await after the step).
AddAccepted ==
  {q \in BagToSet(requests') :
     q.kind = "add" /\ q.pc = "normalize" /\ CopiesIn(q, requests') > CopiesIn(q, requests)}

\* C36: no add, delete, edit or reorder request, in any interleaving,
\* leaves more than MAX_PLAYERS entries in the roster file, and no POST
\* /api/players is accepted while the roster file holds MAX_PLAYERS
\* entries: the roster is not changed and no scrape is started.
C36_RosterWithinLimit ==
  [][/\ Len(playersFile') <= MAX_PLAYERS
     /\ Len(playersFile) >= MAX_PLAYERS => AddAccepted = {}]_vars

\* C37: in every result of scrapePlayers, a profile's missing flag is true
\* exactly when the missing list holds an entry of that player; when pvp
\* is not among the scraped tabs, the list is empty, every flag is false
\* and getPlayerStats was called for every player on every scraped tab.
C37_MissingFlagMatchesList ==
  scPhase = "done" =>
    /\ \A i \in DOMAIN scProfiles :
         scResult.profiles[i].missing = ListedMissing(scResult.missing, i)
    /\ ~ScrapePvp(scTabsOption) =>
         /\ scResult.missing = <<>>
         /\ \A i \in DOMAIN scProfiles : ~scResult.profiles[i].missing
         /\ \A i \in DOMAIN scProfiles, k \in DOMAIN scTabEntries :
              Attempted(scTabEntries[k], i)

\* A pass over pvp returned with the first of two players flagged and
\* listed missing and the second found.
C37_Witness ==
  /\ scPhase = "done"
  /\ ScrapePvp(scTabsOption)
  /\ Len(scProfiles) = 2
  /\ scResult.profiles[1].missing /\ ~scResult.profiles[2].missing
  /\ Len(scResult.missing) = 1 /\ ListedMissing(scResult.missing, 1)

\* C38: whenever scrapePlayers has left, by a return or by an error thrown
\* at any step after the browser was launched, the browser has been closed,
\* and closed once.
C38_BrowserClosedOnce == scPhase \in {"done", "thrown"} => scCloses = 1

\* An accepted POST /api/refresh is inside its try block, at scrapePlayers.
RefreshInProgress ==
  \E q \in Pending : q.kind = "refresh" /\ q.pc \in {"scrape", "stalled"}

\* C39: a POST /api/refresh that set refreshInFlight to true eventually
\* leaves its try block and sets the flag back to false, and the flag is
\* true only while such a request is in progress, so that no refresh is
\* answered 429 on account of a request that has finished.
C39_FlagEventuallyCleared ==
  /\ [](refreshInFlight => RefreshInProgress)
  /\ RefreshInProgress ~> ~RefreshInProgress

\* The profile and the roster player hold the same steamId, or the same
\* steamUrl.
MatchesPlayer(profile, player) ==
  SharesKey(profile, player, "steamId") \/ SharesKey(profile, player, "steamUrl")

\* The label of a response profile: displayName, else fallbackName, else
\* steamId, else steamUrl.
ResponseLabel(profile) ==
  IF Get(profile, "displayName") # NULL THEN profile.displayName
  ELSE IF Get(profile, "fallbackName") # NULL THEN profile.fallbackName
  ELSE IF Get(profile, "steamId") # NULL THEN profile.steamId
  ELSE Get(profile, "steamUrl")

\* C40: every profile of a buildResponseFromCache response matches a
\* player of the roster by steamId or steamUrl, and every key of every
\* tab's stats in the response is the label of one of its profiles.
C40_ResponseWithinRoster ==
  (fn = "response" /\ fnPhase = "built" /\ ~IsNoCache(ret)) =>
    /\ \A i \in DOMAIN ret.profiles :
         \E j \in DOMAIN argPlayers : MatchesPlayer(ret.profiles[i], argPlayers[j])
    /\ \A t \in DOMAIN ret.tabs :
         \A k \in DOMAIN ret.tabs[t].stats :
           \E i \in DOMAIN ret.profiles : ResponseLabel(ret.profiles[i]) = k

\* The cache held the profile of a player the roster lacks beside that of
\* a roster player: the response holds the roster player's profile alone,
\* with the stats entry under its label.
C40_Witness ==
  /\ fn = "response" /\ fnPhase = "built"
  /\ Len(argCache.profiles) = 2 /\ Len(argPlayers) = 1
  /\ \E i \in DOMAIN argCache.profiles :
       ~MatchesPlayer(argCache.profiles[i], argPlayers[1])
  /\ Len(ret.profiles) = 1
  /\ MatchesPlayer(ret.profiles[1], argPlayers[1])
  /\ DOMAIN ret.tabs["pvp"].stats = {"cached"}
  /\ ResponseLabel(ret.profiles[1]) = "cached"

====
